---- MODULE Spec2Model ----
(***************************************************************************)
(* Cross-platform product matching and comparison engine of the Groease    *)
(* price comparator: the web ProductService (quantity parser, quantity     *)
(* matcher, flat-product filter and sort), the mobile ProductService       *)
(* (sortProducts over matched products), the fetch-time platform narrowing *)
(* of GroeaseAPI / FastEcommerceAPI and the lists the views render.        *)
(*                                                                         *)
(* Representation.                                                         *)
(*  - A JavaScript string is a sequence of one-character strings, so that  *)
(*    trim, toLowerCase and the regular expressions are computed character *)
(*    by character.  An optional string (quantity?: string, a null in the  *)
(*    payload) is a record [defined, chars].                               *)
(*  - A JavaScript object used as a map (platforms, original_names) is the *)
(*    sequence of its entries in insertion order, which is the order of    *)
(*    Object.keys / Object.values.                                         *)
(*  - parseFloat of a decimal with at most three fraction digits is kept   *)
(*    exactly, as an integer number of thousandths; weights in kilograms   *)
(*    are kept as integer millionths of a kilogram.                        *)
(***************************************************************************)
EXTENDS Integers, Sequences, FiniteSets, TLC

VARIABLES
    pInput, pOutput,                 \* parseQuantity: argument, returned value
    group, verdict,                  \* hasMatchingQuantities: argument, returned value
    viewProducts, viewRendered,      \* the views: matched products of the search, the view and its list
    sReply, sFilters, sCall, sOut,   \* sortProducts / API narrowing: inputs, function called, output
    dItems, dFilters, dCall, dOut,   \* delivery-time handling: inputs, function called, output
    clock, heap, cache, inflight,    \* mobile ProductService: Date.now(), arrays, cache, backend requests
    issued, rsScreen, rsQuery, rsLocation, rsFilters,  \* mobile results screen: searches started,
    rsRaw, rsProducts, rsFrom, rsLatest,               \* instance, params and state
    fsLocal, fsText, fsApplied,      \* FilterSheet: localFilters, maxPriceText, filters given to onApply
    fsFilters, fsVisible,            \* FilterSheet props: filters and showFilter of the results screen
    cProduct, cCard,                 \* product card: the matchedProduct prop, what is rendered
    ldView, ldLoading, ldInflight, ldTimers, ldIssued  \* loading flag of a view: the view, the flag,
                                     \* searches in flight, pending setLoading(false) timers, searches started

vars == <<pInput, pOutput, group, verdict, viewProducts, viewRendered,
          sReply, sFilters, sCall, sOut, dItems, dFilters, dCall, dOut,
          clock, heap, cache, inflight, issued, rsScreen, rsQuery, rsLocation, rsFilters,
          rsRaw, rsProducts, rsFrom, rsLatest, fsLocal, fsText, fsApplied,
          fsFilters, fsVisible,
          cProduct, cCard, ldView, ldLoading, ldInflight, ldTimers, ldIssued>>

parseVars == <<pInput, pOutput>>
qtyVars   == <<group, verdict>>
viewVars  == <<viewProducts, viewRendered>>
sortVars  == <<sReply, sFilters, sCall, sOut>>
delivVars == <<dItems, dFilters, dCall, dOut>>
serviceVars == <<clock, heap, cache, inflight>>
screenVars  == <<issued, rsScreen, rsQuery, rsLocation, rsFilters, rsRaw, rsProducts, rsFrom,
                 rsLatest>>
sheetVars   == <<fsLocal, fsText, fsApplied, fsFilters, fsVisible>>
cardVars    == <<cProduct, cCard>>
loadVars    == <<ldView, ldLoading, ldInflight, ldTimers, ldIssued>>

-----------------------------------------------------------------------------
(* Strings *)

Undefined == [defined |-> FALSE, chars |-> <<>>]
Str(s)    == [defined |-> TRUE, chars |-> s]
\* JavaScript truthiness of an optional string: undefined, null and "" are falsy
Truthy(q) == q.defined /\ q.chars # <<>>

Digits == <<"0", "1", "2", "3", "4", "5", "6", "7", "8", "9">>
IsDigit(c) == \E i \in 1..10 : Digits[i] = c
DigitVal(c) == (CHOOSE i \in 1..10 : Digits[i] = c) - 1
IsSpace(c) == c = " "

UpperLetters == <<"A","B","C","D","E","F","G","H","I","J","K","L","M",
                  "N","O","P","Q","R","S","T","U","V","W","X","Y","Z">>
LowerLetters == <<"a","b","c","d","e","f","g","h","i","j","k","l","m",
                  "n","o","p","q","r","s","t","u","v","w","x","y","z">>
LowerOf(c) == IF \E i \in 1..26 : UpperLetters[i] = c
              THEN LowerLetters[CHOOSE i \in 1..26 : UpperLetters[i] = c]
              ELSE c
toLowerCase(s) == [i \in 1..Len(s) |-> LowerOf(s[i])]

RECURSIVE trimStart(_)
trimStart(s) == IF s # <<>> /\ IsSpace(Head(s)) THEN trimStart(Tail(s)) ELSE s
RECURSIVE trimEnd(_)
trimEnd(s) == IF s # <<>> /\ IsSpace(s[Len(s)]) THEN trimEnd(SubSeq(s, 1, Len(s) - 1)) ELSE s
trim(s) == trimEnd(trimStart(s))

\* does the literal tok occur in s at position i
LitAt(s, i, tok) == i + Len(tok) - 1 <= Len(s) /\ SubSeq(s, i, i + Len(tok) - 1) = tok

\* \d+ at position i, greedy: the position after the run (i itself when no digit is there)
RECURSIVE DigitsEnd(_, _)
DigitsEnd(s, i) == IF i <= Len(s) /\ IsDigit(s[i]) THEN DigitsEnd(s, i + 1) ELSE i
\* \s* at position i, greedy
RECURSIVE SpacesEnd(_, _)
SpacesEnd(s, i) == IF i <= Len(s) /\ IsSpace(s[i]) THEN SpacesEnd(s, i + 1) ELSE i

\* parseInt of a run of digits
RECURSIVE parseInt(_)
parseInt(ds) == IF ds = <<>> THEN 0
                ELSE 10 * parseInt(SubSeq(ds, 1, Len(ds) - 1)) + DigitVal(ds[Len(ds)])

-----------------------------------------------------------------------------
(* Web ProductService.parseQuantity (src/src/services/productService.ts)   *)

\* the value null, in the shape of a parsed quantity
NullQuantity == [isNull |-> TRUE, value |-> 0, unit |-> ""]

\* The alternation (kg|g|gm|gram|kilograms?|grams?|pack|pcs?|pieces?) in the
\* order the regular expression tries it; an optional s is tried with the s first.
UnitAlternatives ==
    << [tok |-> <<"k","g">>,                              unit |-> "kg"],
       [tok |-> <<"g">>,                                  unit |-> "g"],
       [tok |-> <<"g","m">>,                              unit |-> "gm"],
       [tok |-> <<"g","r","a","m">>,                      unit |-> "gram"],
       [tok |-> <<"k","i","l","o","g","r","a","m","s">>,  unit |-> "kilograms"],
       [tok |-> <<"k","i","l","o","g","r","a","m">>,      unit |-> "kilogram"],
       [tok |-> <<"g","r","a","m","s">>,                  unit |-> "grams"],
       [tok |-> <<"g","r","a","m">>,                      unit |-> "gram"],
       [tok |-> <<"p","a","c","k">>,                      unit |-> "pack"],
       [tok |-> <<"p","c","s">>,                          unit |-> "pcs"],
       [tok |-> <<"p","c">>,                              unit |-> "pc"],
       [tok |-> <<"p","i","e","c","e","s">>,              unit |-> "pieces"],
       [tok |-> <<"p","i","e","c","e">>,                  unit |-> "piece"] >>

\* (\d+(?:\.\d+)?) at position i, greedy: the position after it, i when it does not match
NumberEnd(s, i) ==
    LET e1 == DigitsEnd(s, i) IN
    IF e1 = i THEN i
    ELSE IF e1 <= Len(s) /\ s[e1] = "." /\ DigitsEnd(s, e1 + 1) > e1 + 1
         THEN DigitsEnd(s, e1 + 1)
         ELSE e1

\* The index in UnitAlternatives of the first alternative found at position i, 0 if none
UnitAt(s, i) ==
    IF \E k \in 1..Len(UnitAlternatives) : LitAt(s, i, UnitAlternatives[k].tok)
    THEN CHOOSE k \in 1..Len(UnitAlternatives) :
            /\ LitAt(s, i, UnitAlternatives[k].tok)
            /\ \A j \in 1..(k - 1) : ~LitAt(s, i, UnitAlternatives[j].tok)
    ELSE 0

\* The whole pattern tried at start position i.  The greedy attempt is the only
\* one that can succeed: after fewer digits the next character is a digit or ".",
\* after fewer blanks it is a blank, and no unit starts with either.
MatchesAt(s, i) ==
    LET e == NumberEnd(s, i) IN e > i /\ UnitAt(s, SpacesEnd(s, e)) # 0

\* String.prototype.match without the g flag: the leftmost start position, 0 if none
MatchStart(s) ==
    IF \E i \in 1..Len(s) : MatchesAt(s, i)
    THEN CHOOSE i \in 1..Len(s) :
            MatchesAt(s, i) /\ \A j \in 1..(i - 1) : ~MatchesAt(s, j)
    ELSE 0

\* parseFloat of digits, or digits "." digits, in thousandths (fraction digits
\* beyond the third are dropped)
parseFloat(t) ==
    LET e1   == DigitsEnd(t, 1)
        int  == parseInt(SubSeq(t, 1, e1 - 1))
        frac == IF e1 <= Len(t) THEN SubSeq(t, e1 + 1, Len(t)) ELSE <<>>
        pad  == SubSeq(frac \o <<"0", "0", "0">>, 1, 3)
    IN 1000 * int + parseInt(pad)

\* lines 211-218: the unit synonyms
NormalizeUnit(unit) ==
    IF unit = "gram" \/ unit = "grams" \/ unit = "gm" THEN "g"
    ELSE IF unit = "kilogram" \/ unit = "kilograms" THEN "kg"
    ELSE IF unit = "pc" \/ unit = "pcs" \/ unit = "pieces" THEN "pack"
    ELSE unit

\* parseQuantity(quantity: string): { value, unit } | null
parseQuantity(quantity) ==
    LET normalized == toLowerCase(trim(quantity))
        i          == MatchStart(normalized)
    IN IF i = 0 THEN NullQuantity
       ELSE LET e == NumberEnd(normalized, i)
                k == UnitAt(normalized, SpacesEnd(normalized, e))
            IN [isNull |-> FALSE,
                value  |-> parseFloat(SubSeq(normalized, i, e - 1)),
                unit   |-> NormalizeUnit(UnitAlternatives[k].unit)]

-----------------------------------------------------------------------------
(* Web ProductService.hasMatchingQuantities                                *)

toleranceRatio == 2
\* the slack 0.01 kg of the exact-match test, in millionths of a kilogram
floatSlack == 10000

\* a converted quantity: null, or a weight in millionths of a kilogram
NullKg == [isNull |-> TRUE, kg |-> 0]
\* lines 159-168; qty.value is in thousandths of the unit
ToKg(qty) ==
    IF qty.unit = "g" \/ qty.unit = "gm" \/ qty.unit = "gram"
    THEN [isNull |-> FALSE, kg |-> qty.value]
    ELSE IF qty.unit = "kg" \/ qty.unit = "kilogram"
    THEN [isNull |-> FALSE, kg |-> qty.value * 1000]
    ELSE NullKg

Abs(x) == IF x < 0 THEN -x ELSE x
Max2(a, b) == IF a >= b THEN a ELSE b
Min2(a, b) == IF a <= b THEN a ELSE b

\* WithinTolerance with the band's upper end left out (ratio < toleranceRatio)
WithinTolerance_strictRatio(qty, firstQty) ==
    IF qty.isNull THEN FALSE
    ELSE IF Abs(qty.kg - firstQty.kg) < floatSlack THEN TRUE
    ELSE /\ Min2(qty.kg, firstQty.kg) # 0
         /\ Max2(qty.kg, firstQty.kg) < toleranceRatio * Min2(qty.kg, firstQty.kg)

\* lines 185-192, the callback of every(): a division by zero gives Infinity or
\* NaN, and neither is <= toleranceRatio
WithinTolerance(qty, firstQty) ==
    IF qty.isNull THEN FALSE
    ELSE IF Abs(qty.kg - firstQty.kg) < floatSlack THEN TRUE
    ELSE /\ Min2(qty.kg, firstQty.kg) # 0
         /\ Max2(qty.kg, firstQty.kg) <= toleranceRatio * Min2(qty.kg, firstQty.kg)

\* p.quantity ? this.parseQuantity(p.quantity) : null
ParsedOrNull(p) == IF Truthy(p.quantity) THEN parseQuantity(p.quantity.chars) ELSE NullQuantity

\* QuantityString comparing the strings as they are
QuantityString_raw(p) == IF p.quantity.defined THEN p.quantity.chars ELSE <<>>

\* p.quantity?.trim().toLowerCase(), "" standing for undefined: both are falsy
QuantityString(p) == IF p.quantity.defined THEN toLowerCase(trim(p.quantity.chars)) ELSE <<>>

\* lines 170-179: the fallback to string comparison
StringFallback(products) ==
    LET all             == [i \in 1..Len(products) |-> QuantityString(products[i])]
        quantityStrings == SelectSeq(all, LAMBDA q : q # <<>>)
    IN IF Len(quantityStrings) = 0 THEN TRUE
       ELSE \A i \in 1..Len(quantityStrings) : quantityStrings[i] = quantityStrings[1]

\* SomeMissing with the partial-data test left out
SomeMissing_ignored(parsedQuantities, products) == FALSE

\* lines 153-156: some products have quantities and others do not
SomeMissing(parsedQuantities, products) == Len(parsedQuantities) < Len(products)

hasMatchingQuantities(products) ==
    IF Len(products) <= 1 THEN TRUE
    ELSE
    LET mapped           == [i \in 1..Len(products) |-> ParsedOrNull(products[i])]
        parsedQuantities == SelectSeq(mapped, LAMBDA q : ~q.isNull)
    IN IF Len(parsedQuantities) = 0 THEN TRUE
       ELSE IF SomeMissing(parsedQuantities, products) THEN FALSE
       ELSE
       LET quantitiesInKg == [i \in 1..Len(parsedQuantities) |-> ToKg(parsedQuantities[i])]
       IN IF \E i \in 1..Len(quantitiesInKg) : quantitiesInKg[i].isNull
          THEN StringFallback(products)
          ELSE \A i \in 1..Len(quantitiesInKg) :
                  WithinTolerance(quantitiesInKg[i], quantitiesInKg[1])

-----------------------------------------------------------------------------
(* Matched products (src/src/types/product.ts, MatchedProduct)              *)
(* platforms and original_names are the sequences of their entries; an     *)
(* entry of platforms is [platform, price, quantity, deliveryTime], an     *)
(* entry of original_names is [platform, name].                            *)

Keys(obj) == [i \in 1..Len(obj) |-> obj[i].platform]
Has(obj, plat) == \E i \in 1..Len(obj) : obj[i].platform = plat
Get(obj, plat) == obj[CHOOSE i \in 1..Len(obj) : obj[i].platform = plat]
KeySet(obj) == { obj[i].platform : i \in 1..Len(obj) }
Includes(list, x) == \E i \in 1..Len(list) : list[i] = x

\* an optional number (maxPrice?: number)
NoNumber == [defined |-> FALSE, n |-> 0]
Num(n)   == [defined |-> TRUE, n |-> n]
\* JavaScript truthiness of an optional number: undefined and 0 are falsy
TruthyNum(x) == x.defined /\ x.n # 0

RECURSIVE MinOf(_)
MinOf(ns) == IF Len(ns) = 1 THEN ns[1] ELSE Min2(ns[1], MinOf(Tail(ns)))

-----------------------------------------------------------------------------
(* Mobile ProductService.sortProducts                                      *)
(* (src/groease-mobile/src/services/productService.ts)                     *)

\* lines 54-59: one pass over filters.platforms; obj[plat] = ... on a key that is
\* already there adds no entry
RECURSIVE PickPlatforms(_, _, _)
PickPlatforms(obj, plats, acc) ==
    IF plats = <<>> THEN acc
    ELSE LET plat == Head(plats) IN
         IF Has(obj, plat) /\ ~Has(acc, plat)
         THEN PickPlatforms(obj, Tail(plats), Append(acc, Get(obj, plat)))
         ELSE PickPlatforms(obj, Tail(plats), acc)

\* line 57: the name is copied only under a kept listing and only when truthy
RECURSIVE PickNames(_, _, _, _)
PickNames(p, names, plats, acc) ==
    IF plats = <<>> THEN acc
    ELSE LET plat == Head(plats) IN
         IF /\ Has(p, plat) /\ Has(names, plat) /\ ~Has(acc, plat)
            /\ Get(names, plat).name # <<>>
         THEN PickNames(p, names, Tail(plats), Append(acc, Get(names, plat)))
         ELSE PickNames(p, names, Tail(plats), acc)

\* NarrowProduct that keeps the record's names as they were
NarrowProduct_namesKept(p, plats) ==
    [p EXCEPT !.platforms = PickPlatforms(p.platforms, plats, <<>>)]

\* lines 51-61: the callback of map()
NarrowProduct(p, plats) ==
    [p EXCEPT !.platforms = PickPlatforms(p.platforms, plats, <<>>),
              !.original_names = PickNames(p.platforms, p.original_names, plats, <<>>)]

\* NarrowStep that narrows to an empty selection too
NarrowStep_emptySelectsNone(list, filters) ==
    IF filters.defined
    THEN SelectSeq([i \in 1..Len(list) |-> NarrowProduct(list[i], filters.platforms)],
                   LAMBDA p : Len(p.platforms) > 0)
    ELSE list

\* lines 48-63
NarrowStep(list, filters) ==
    IF filters.defined /\ Len(filters.platforms) > 0
    THEN SelectSeq([i \in 1..Len(list) |-> NarrowProduct(list[i], filters.platforms)],
                   LAMBDA p : Len(p.platforms) > 0)
    ELSE list

\* Object.values(p.platforms).map(d => d.price).filter(Boolean)
PricesOf(p) == SelectSeq([i \in 1..Len(p.platforms) |-> p.platforms[i].price],
                         LAMBDA x : x # 0)

\* lines 65-71
PriceStep(list, filters) ==
    IF filters.defined /\ TruthyNum(filters.maxPrice)
    THEN SelectSeq(list, LAMBDA p : Len(PricesOf(p)) > 0 /\ MinOf(PricesOf(p)) <= filters.maxPrice.n)
    ELSE list

\* Infinity, in the shape of a price
Infinity == [inf |-> TRUE, n |-> 0]
\* lines 76-79
cheapestPrice(p) ==
    IF Len(PricesOf(p)) > 0 THEN [inf |-> FALSE, n |-> MinOf(PricesOf(p))] ELSE Infinity

\* a - b on prices that may be Infinity: Infinity - Infinity is NaN, which sort
\* takes as 0
Sign(x) == IF x < 0 THEN -1 ELSE IF x > 0 THEN 1 ELSE 0
PriceDifference(a, b) ==
    IF a.inf /\ b.inf THEN 0
    ELSE IF a.inf THEN 1
    ELSE IF b.inf THEN -1
    ELSE Sign(a.n - b.n)

\* d.deliveryTime?.match(/(\d+)/): the first run of digits, parsed; 999 without one
FirstNumber(deliveryTime) ==
    IF deliveryTime.defined /\ \E i \in 1..Len(deliveryTime.chars) : IsDigit(deliveryTime.chars[i])
    THEN LET t == deliveryTime.chars
             i == CHOOSE k \in 1..Len(t) : IsDigit(t[k]) /\ \A j \in 1..(k - 1) : ~IsDigit(t[j])
         IN parseInt(SubSeq(t, i, DigitsEnd(t, i) - 1))
    ELSE 999

\* lines 81-89
fastestDelivery(p) ==
    IF Len(p.platforms) > 0
    THEN MinOf([i \in 1..Len(p.platforms) |-> FirstNumber(p.platforms[i].deliveryTime)])
    ELSE 999

\* a.name.localeCompare(b.name, undefined, { sensitivity: 'base', numeric: true })
\* on names of letters, digits and blanks: letters compare without case, a run
\* of digits compares as a number, blanks sort before digits and digits before letters
CollationRank(c) ==
    IF IsSpace(c) THEN 0
    ELSE IF IsDigit(c) THEN 1 + DigitVal(c)
    ELSE IF \E i \in 1..26 : LowerLetters[i] = LowerOf(c)
         THEN 11 + (CHOOSE i \in 1..26 : LowerLetters[i] = LowerOf(c))
         ELSE 40
RECURSIVE localeCompare(_, _)
localeCompare(a, b) ==
    IF a = <<>> /\ b = <<>> THEN 0
    ELSE IF a = <<>> THEN -1
    ELSE IF b = <<>> THEN 1
    ELSE IF IsDigit(a[1]) /\ IsDigit(b[1])
    THEN LET ea == DigitsEnd(a, 1)
             eb == DigitsEnd(b, 1)
             na == parseInt(SubSeq(a, 1, ea - 1))
             nb == parseInt(SubSeq(b, 1, eb - 1))
         IN IF na # nb THEN Sign(na - nb)
            ELSE localeCompare(SubSeq(a, ea, Len(a)), SubSeq(b, eb, Len(b)))
    ELSE IF CollationRank(a[1]) # CollationRank(b[1])
    THEN Sign(CollationRank(a[1]) - CollationRank(b[1]))
    ELSE localeCompare(Tail(a), Tail(b))

\* lines 91-105: the comparator handed to sort, by sortBy
Compare(sortBy, a, b) ==
    IF sortBy = "price-low" THEN PriceDifference(cheapestPrice(a), cheapestPrice(b))
    ELSE IF sortBy = "price-high" THEN PriceDifference(cheapestPrice(b), cheapestPrice(a))
    ELSE IF sortBy = "delivery-time" THEN Sign(fastestDelivery(a) - fastestDelivery(b))
    ELSE IF Len(a.platforms) # Len(b.platforms)
         THEN Sign(Len(b.platforms) - Len(a.platforms))
         ELSE localeCompare(a.name, b.name)

\* InsertSorted putting the new element before the elements that compare equal to it
RECURSIVE InsertSorted_beforeEquals(_, _, _)
InsertSorted_beforeEquals(sorted, x, sortBy) ==
    IF sorted # <<>> /\ Compare(sortBy, x, sorted[Len(sorted)]) <= 0
    THEN Append(InsertSorted_beforeEquals(SubSeq(sorted, 1, Len(sorted) - 1), x, sortBy),
                sorted[Len(sorted)])
    ELSE Append(sorted, x)

\* Array.prototype.sort is stable (ECMAScript 2019): an element goes behind the
\* elements that do not compare greater than it
RECURSIVE InsertSorted(_, _, _)
InsertSorted(sorted, x, sortBy) ==
    IF sorted # <<>> /\ Compare(sortBy, x, sorted[Len(sorted)]) < 0
    THEN Append(InsertSorted(SubSeq(sorted, 1, Len(sorted) - 1), x, sortBy),
                sorted[Len(sorted)])
    ELSE Append(sorted, x)

\* Sort by an unstable algorithm: elements that compare equal come out reversed
RECURSIVE Sort_reversedTies(_, _)
Sort_reversedTies(list, sortBy) ==
    IF list = <<>> THEN <<>>
    ELSE InsertSorted(Sort_reversedTies(Tail(list), sortBy), Head(list), sortBy)

RECURSIVE Sort(_, _)
Sort(list, sortBy) ==
    IF list = <<>> THEN <<>>
    ELSE InsertSorted(Sort(SubSeq(list, 1, Len(list) - 1), sortBy), list[Len(list)], sortBy)

\* SortByOf falling back to the order of the last branch
SortByOf_rating(filters) ==
    IF filters.defined /\ filters.sortBy.defined THEN filters.sortBy.v ELSE "rating"

\* line 74: filters?.sortBy ?? 'price-low'
SortByOf(filters) ==
    IF filters.defined /\ filters.sortBy.defined THEN filters.sortBy.v ELSE "price-low"

\* sortProducts applying the price ceiling before the platform narrowing
sortProducts_priceFirst(products, filters) ==
    Sort(NarrowStep(PriceStep(products, filters), filters), SortByOf(filters))

\* sortProducts(products, filters?)
sortProducts(products, filters) ==
    Sort(PriceStep(NarrowStep(products, filters), filters), SortByOf(filters))

-----------------------------------------------------------------------------
(* Mobile ProductService.sortProducts on arrays as objects. A heap is the   *)
(* sequence of the arrays allocated so far, an array reference is an index  *)
(* into it, and 0 refers to a fresh empty array. The records of an array    *)
(* are values: sortProducts assigns to no field of a record it was given.   *)

Deref(h, ref) == IF ref = 0 THEN <<>> ELSE h[ref]

\* CopyArray without the copy: list is the array products itself
CopyArray_alias(h, ref) == [heap |-> h, ref |-> ref]

\* line 46: let list = [...products]
CopyArray(h, ref) == [heap |-> Append(h, Deref(h, ref)), ref |-> Len(h) + 1]

\* map() and filter() return a new array
NewArray(h, list) == [heap |-> Append(h, list), ref |-> Len(h) + 1]

\* lines 46-107: the heap after the call and the reference the call returns;
\* list.sort() sorts the array list refers to in place
sortProductsOn(h, products, filters) ==
    LET copied   == CopyArray(h, products)
        narrowed == IF filters.defined /\ Len(filters.platforms) > 0
                    THEN NewArray(copied.heap, NarrowStep(Deref(copied.heap, copied.ref), filters))
                    ELSE copied
        priced   == IF filters.defined /\ TruthyNum(filters.maxPrice)
                    THEN NewArray(narrowed.heap,
                                  PriceStep(Deref(narrowed.heap, narrowed.ref), filters))
                    ELSE narrowed
    IN [heap |-> IF priced.ref = 0 THEN priced.heap
                 ELSE [priced.heap EXCEPT ![priced.ref] =
                          Sort(priced.heap[priced.ref], SortByOf(filters))],
        ref  |-> priced.ref]

\* the array handed to sortProducts, as it is after the call
ArgumentAfter(products, filters) == sortProductsOn(<<products>>, 1, filters).heap[1]

-----------------------------------------------------------------------------
(* GroeaseAPI.searchProducts (src/unnamed/part_005) and                    *)
(* FastEcommerceAPI.searchProducts (src/src/services/fastEcommerceAPI.ts)  *)
(* A reply is [ok, products]: ok is FALSE when fetch rejects or the status *)
(* is not 2xx, and searchViaBackendAPI throws.                             *)

\* the forEach over Object.keys(matchedProduct.platforms || {})
KeepIncluded(obj, platforms) == SelectSeq(obj, LAMBDA e : Includes(platforms, e.platform))
KeepNames(p, names, platforms) ==
    SelectSeq(names, LAMBDA e : /\ Has(p, e.platform) /\ Includes(platforms, e.platform)
                                /\ e.name # <<>>)

\* the callback of map(): the record with its two maps narrowed
FetchNarrowProduct(p, platforms) ==
    [p EXCEPT !.platforms = KeepIncluded(p.platforms, platforms),
              !.original_names = KeepNames(p.platforms, p.original_names, platforms)]

\* part_005 lines 27-47
GroeaseNarrow(products, platforms) ==
    SelectSeq([i \in 1..Len(products) |-> FetchNarrowProduct(products[i], platforms)],
              LAMBDA p : Len(p.platforms) > 0)

\* fastEcommerceAPI.ts lines 45-63
FastEcommerceNarrow(products, platforms) ==
    SelectSeq([i \in 1..Len(products) |-> FetchNarrowProduct(products[i], platforms)],
              LAMBDA p : Len(p.platforms) > 0)

\* How an awaited call ends: it returns a value, or it throws and the promise
\* of the async function is rejected.
Returned(value) == [threw |-> FALSE, value |-> value]
Thrown == [threw |-> TRUE, value |-> <<>>]

\* A reply is the backend's answer [ok, products]; a request that never got an
\* answer (fetch rejects) carries the field failed.
RequestFailed == [ok |-> FALSE, products |-> <<>>, failed |-> TRUE]
Failed(reply) == "failed" \in DOMAIN reply

\* part_005 lines 57-88, fastEcommerceAPI.ts searchViaBackendAPI: await fetch throws
\* on a failed request, !response.ok throws, otherwise data.products || []
searchViaBackendAPI(reply) ==
    IF Failed(reply) THEN Thrown
    ELSE IF ~reply.ok THEN Thrown
    ELSE Returned(reply.products)

\* a catch block that throws the error again
Catch_rethrow(outcome) == outcome

\* try { ... } catch (error) { console.error(...); return []; }
Catch(outcome) == IF outcome.threw THEN Returned(<<>>) ELSE outcome

\* part_005 lines 15-55, as the way the call ends
GroeaseAPI_searchProducts_outcome(query, reply, platforms) ==
    IF trim(query) = <<>> THEN Returned(<<>>)
    ELSE Catch(LET products == searchViaBackendAPI(reply)
               IN IF products.threw THEN products
                  ELSE IF Len(products.value) > 0
                       THEN Returned(GroeaseNarrow(products.value, platforms))
                  ELSE Returned(<<>>))

\* part_005 lines 15-55: the list the call resolves with
GroeaseAPI_searchProducts(query, reply, platforms) ==
    GroeaseAPI_searchProducts_outcome(query, reply, platforms).value

\* fastEcommerceAPI.ts lines 16-83, as the way the call ends
FastEcommerceAPI_searchProducts_outcome(query, reply, platforms) ==
    IF trim(query) = <<>> THEN Returned(<<>>)
    ELSE Catch(LET products == searchViaBackendAPI(reply)
               IN IF products.threw THEN products
                  ELSE IF Len(products.value) > 0
                       THEN Returned(FastEcommerceNarrow(products.value, platforms))
                  ELSE Returned(<<>>))

\* fastEcommerceAPI.ts lines 16-83: the list the call resolves with
FastEcommerceAPI_searchProducts(query, reply, platforms) ==
    FastEcommerceAPI_searchProducts_outcome(query, reply, platforms).value

-----------------------------------------------------------------------------
(* Web ProductService: parseDeliveryTime, sortProducts, applyFilters and    *)
(* searchProducts (src/src/services/productService.ts)                     *)
(* A Product is [id, platform, price, rating, reviewCount, deliveryTime,    *)
(* deliveryFee], the last two optional. The functions are also handed       *)
(* MatchedProduct records, on which the fields of a Product read undefined. *)

NoPlatform == [defined |-> FALSE, v |-> ""]
PlatformOf(product) ==
    IF "platform" \in DOMAIN product
    THEN [defined |-> TRUE, v |-> product.platform] ELSE NoPlatform
\* a numeric field that a Product always carries: price, rating, reviewCount
NumberOf(product, field) ==
    IF field \in DOMAIN product THEN Num(product[field]) ELSE NoNumber
DeliveryTimeOf(product) ==
    IF "deliveryTime" \in DOMAIN product THEN product.deliveryTime ELSE Undefined
DeliveryFeeOf(product) ==
    IF "deliveryFee" \in DOMAIN product THEN product.deliveryFee ELSE NoNumber

Lit_hour == <<"h","o","u","r">>
Lit_min  == <<"m","i","n">>

\* /(\d+)\s*hour/ matching with its first digit at position i
HourAt(s, i) ==
    DigitsEnd(s, i) > i /\ LitAt(s, SpacesEnd(s, DigitsEnd(s, i)), Lit_hour)
\* /(\d+)-(\d+)\s*min/ matching with its first digit at position i
RangeAt(s, i) ==
    LET d1 == DigitsEnd(s, i)
    IN /\ d1 > i
       /\ LitAt(s, d1, <<"-">>)
       /\ DigitsEnd(s, d1 + 1) > d1 + 1
       /\ LitAt(s, SpacesEnd(s, DigitsEnd(s, d1 + 1)), Lit_min)
\* /(\d+)\s*min/ matching with its first digit at position i
MinAt(s, i) ==
    DigitsEnd(s, i) > i /\ LitAt(s, SpacesEnd(s, DigitsEnd(s, i)), Lit_min)

\* the run of digits that starts at position i
DigitsFrom(s, i) == SubSeq(s, i, DigitsEnd(s, i) - 1)

\* RangeMinutes returning the first group of the range
RangeMinutes_lowerBound(s, i) == parseInt(DigitsFrom(s, i))

\* lines 105-108: parseInt(rangeMatch[2]) of the match that starts at i
RangeMinutes(s, i) == parseInt(DigitsFrom(s, DigitsEnd(s, i) + 1))

\* lines 93-115; match() returns the leftmost match
parseDeliveryTime(deliveryTime) ==
    LET timeStr == toLowerCase(deliveryTime)
        Pos     == 1..Len(timeStr)
        First(S) == CHOOSE i \in S : \A j \in S : i <= j
        hours   == { i \in Pos : HourAt(timeStr, i) }
        ranges  == { i \in Pos : RangeAt(timeStr, i) }
        mins    == { i \in Pos : MinAt(timeStr, i) }
    IN IF hours # {} THEN parseInt(DigitsFrom(timeStr, First(hours))) * 60
       ELSE IF ranges # {} THEN RangeMinutes(timeStr, First(ranges))
       ELSE IF mins # {} THEN parseInt(DigitsFrom(timeStr, First(mins)))
       ELSE 999

\* a - b handed back to sort: NaN, which an undefined operand gives, counts as 0
NumberDifference(a, b) == IF a.defined /\ b.defined THEN Sign(a.n - b.n) ELSE 0
\* a.price + (a.deliveryFee || 0)
TotalPrice(product) ==
    LET price == NumberOf(product, "price")
        fee   == DeliveryFeeOf(product)
    IN IF price.defined THEN Num(price.n + (IF TruthyNum(fee) THEN fee.n ELSE 0))
       ELSE NoNumber
\* a.deliveryTime ? this.parseDeliveryTime(a.deliveryTime) : 999
DeliveryMinutes(product) ==
    IF Truthy(DeliveryTimeOf(product))
    THEN parseDeliveryTime(DeliveryTimeOf(product).chars) ELSE 999

\* lines 226-249: the comparator of each case of the switch
WebCompare(sortBy, a, b) ==
    IF sortBy = "price-low" THEN NumberDifference(TotalPrice(a), TotalPrice(b))
    ELSE IF sortBy = "price-high" THEN NumberDifference(TotalPrice(b), TotalPrice(a))
    ELSE IF sortBy = "rating"
         THEN NumberDifference(NumberOf(b, "rating"), NumberOf(a, "rating"))
    ELSE IF sortBy = "reviews"
         THEN NumberDifference(NumberOf(b, "reviewCount"), NumberOf(a, "reviewCount"))
    ELSE Sign(DeliveryMinutes(a) - DeliveryMinutes(b))

RECURSIVE WebInsertSorted(_, _, _)
WebInsertSorted(sorted, x, sortBy) ==
    IF sorted # <<>> /\ WebCompare(sortBy, x, sorted[Len(sorted)]) < 0
    THEN Append(WebInsertSorted(SubSeq(sorted, 1, Len(sorted) - 1), x, sortBy),
                sorted[Len(sorted)])
    ELSE Append(sorted, x)
RECURSIVE WebSort(_, _)
WebSort(list, sortBy) ==
    IF list = <<>> THEN <<>>
    ELSE WebInsertSorted(WebSort(SubSeq(list, 1, Len(list) - 1), sortBy), list[Len(list)], sortBy)

WebSortKeys == { "price-low", "price-high", "rating", "reviews", "delivery-time" }
\* web sortProducts(products, sortBy), lines 223-252
Web_sortProducts(products, sortBy) ==
    IF sortBy \in WebSortKeys THEN WebSort(products, sortBy) ELSE products

\* a < b on numbers that may be undefined: false when one is
Less(a, b) == a.defined /\ b.defined /\ a.n < b.n

\* lines 53-82: the callback of products.filter()
PassesFilters(product, filters) ==
    /\ ~(/\ Len(filters.platforms) > 0
         /\ ~(PlatformOf(product).defined /\ Includes(filters.platforms, PlatformOf(product).v)))
    /\ ~(TruthyNum(filters.minPrice) /\ Less(NumberOf(product, "price"), filters.minPrice))
    /\ ~(TruthyNum(filters.maxPrice) /\ Less(filters.maxPrice, NumberOf(product, "price")))
    /\ ~(TruthyNum(filters.minRating) /\ Less(NumberOf(product, "rating"), filters.minRating))
    /\ ~(/\ TruthyNum(filters.maxDeliveryTime)
         /\ Truthy(DeliveryTimeOf(product))
         /\ parseDeliveryTime(DeliveryTimeOf(product).chars) > filters.maxDeliveryTime.n)

\* lines 52-87
applyFilters(products, filters) ==
    Web_sortProducts(SelectSeq(products, LAMBDA product : PassesFilters(product, filters)),
                     filters.sortBy)

\* lines 11-47, on the first search for a key, when the cache holds nothing for
\* it; FastEcommerceAPI.searchProducts catches what the backend call throws
Web_searchProducts(query, reply, filters) ==
    applyFilters(IF trim(query) # <<>>
                 THEN FastEcommerceAPI_searchProducts(query, reply, filters.platforms)
                 ELSE <<>>,
                 filters)

\* web searchProducts lines 24-46 on a cache miss, as the way the call ends: the
\* try around FastEcommerceAPI.searchProducts returns [] from its catch
Web_searchProducts_outcome(query, reply, filters) ==
    LET results == IF trim(query) # <<>>
                   THEN Catch(FastEcommerceAPI_searchProducts_outcome(query, reply,
                                                                      filters.platforms))
                   ELSE Returned(<<>>)
    IN IF results.threw THEN results
       ELSE Returned(applyFilters(results.value, filters))

-----------------------------------------------------------------------------
(* The lists the views render                                              *)

\* part_010 lines 123-139: the Product built from a platform's listing
MockProduct(matchedProduct, listing) ==
    [name |-> matchedProduct.name, price |-> listing.price, platform |-> listing.platform,
     deliveryTime |-> listing.deliveryTime, quantity |-> listing.quantity]

\* LegacyKeeps without the quantity test
LegacyKeeps_all(matchedProduct) == TRUE

\* part_010 lines 114-142: the callback of products.filter()
LegacyKeeps(matchedProduct) ==
    LET platformData == matchedProduct.platforms
        quantities   == SelectSeq([i \in 1..Len(platformData) |-> platformData[i].quantity],
                                  Truthy)
    IN IF Len(platformData) <= 1 THEN TRUE
       ELSE IF Len(quantities) = 0 THEN TRUE
       ELSE hasMatchingQuantities(
                [i \in 1..Len(platformData) |-> MockProduct(matchedProduct, platformData[i])])

\* the App of src/unnamed/part_010: filteredProducts
LegacyApp_filteredProducts(products) == SelectSeq(products, LegacyKeeps)

\* src/src/App.tsx line 39 and lines 90-93
defaultPlatforms == <<"zepto", "blinkit", "swiggy-instamart", "bigbasket", "dmart">>
App_defaultFilters ==
    [platforms |-> defaultPlatforms, minPrice |-> NoNumber, maxPrice |-> NoNumber,
     minRating |-> NoNumber, sortBy |-> "price-low", maxDeliveryTime |-> NoNumber]

\* src/src/App.tsx lines 68-113: the products state after the search effect
App_products(searchQuery, reply) ==
    IF trim(searchQuery) = <<>> THEN <<>>
    ELSE Web_searchProducts(searchQuery, reply, App_defaultFilters)

\* src/src/App.tsx lines 160-162: const filteredProducts = products
App_filteredProducts(products) == products

\* platformData.ts line 41: the keys of platformNames
allPlatforms == <<"zepto", "swiggy-instamart", "bigbasket", "blinkit", "dmart">>

\* _layout.tsx lines 66-69
DEFAULT_FILTERS ==
    [defined |-> TRUE, platforms |-> allPlatforms, maxPrice |-> NoNumber,
     sortBy |-> [defined |-> TRUE, v |-> "rating"]]

\* mobile ProductService.searchProducts, lines 14-36, on the first search for a key
Mobile_searchProducts(query, reply, filters) ==
    IF trim(query) = <<>> THEN <<>>
    ELSE GroeaseAPI_searchProducts(query, reply, filters.platforms)

\* mobile searchProducts lines 26-35 on a cache miss, as the way the call ends:
\* the try around GroeaseAPI.searchProducts returns [] from its catch
Mobile_searchProducts_outcome(query, reply, filters) ==
    IF trim(query) = <<>> THEN Returned(<<>>)
    ELSE Catch(GroeaseAPI_searchProducts_outcome(query, reply, filters.platforms))

\* _layout.tsx lines 155-182: rawProducts after the fetch effect
ResultsScreen_rawProducts(query, reply) ==
    IF query = <<>> THEN <<>> ELSE Mobile_searchProducts(query, reply, DEFAULT_FILTERS)

\* _layout.tsx lines 111-118: the effect that fills products, the list of the FlatList
ResultsScreen_products(rawProducts, filters) ==
    IF Len(rawProducts) > 0 THEN sortProducts(rawProducts, filters) ELSE <<>>

-----------------------------------------------------------------------------
(* Mobile ProductService.searchProducts with its cache                      *)
(* (src/groease-mobile/src/services/productService.ts lines 10-36) and the  *)
(* effects of the results screen (src/groease-mobile/app/_layout.tsx).      *)
(* Date.now() is counted in minutes. A cache entry is [products, timestamp] *)
(* with products an array reference; the cache is a function on the keys    *)
(* that were set.                                                          *)

\* line 12: 5 * 60 * 1000 milliseconds, in minutes
CACHE_DURATION == 5

\* String(n) of a natural number
RECURSIVE NumberChars(_)
NumberChars(n) ==
    IF n < 10 THEN <<Digits[n + 1]>>
    ELSE NumberChars(n \div 10) \o <<Digits[(n % 10) + 1]>>

Quote == "\""
JsonString(chars) == <<Quote>> \o chars \o <<Quote>>
JsonField(name, value) == JsonString(name) \o <<":">> \o value
\* JSON.stringify of a LocationData {city, state, country, coordinates: {lat, lng}}
JSON_stringify(location) ==
    <<"{">> \o JsonField(<<"c","i","t","y">>, JsonString(location.city)) \o <<",">>
    \o JsonField(<<"s","t","a","t","e">>, JsonString(location.state)) \o <<",">>
    \o JsonField(<<"c","o","u","n","t","r","y">>, JsonString(location.country)) \o <<",">>
    \o JsonField(<<"c","o","o","r","d","i","n","a","t","e","s">>,
                 <<"{">> \o JsonField(<<"l","a","t">>, NumberChars(location.coordinates.lat))
                 \o <<",">> \o JsonField(<<"l","n","g">>, NumberChars(location.coordinates.lng))
                 \o <<"}">>)
    \o <<"}">>

\* the characters of a platform key
PlatformChars(plat) ==
    CASE plat = "zepto"            -> <<"z","e","p","t","o">>
      [] plat = "blinkit"          -> <<"b","l","i","n","k","i","t">>
      [] plat = "bigbasket"        -> <<"b","i","g","b","a","s","k","e","t">>
      [] plat = "dmart"            -> <<"d","m","a","r","t">>
      [] plat = "swiggy-instamart" ->
            <<"s","w","i","g","g","y","-","i","n","s","t","a","m","a","r","t">>
\* platforms.join(',')
RECURSIVE Join(_)
Join(platforms) ==
    IF platforms = <<>> THEN <<>>
    ELSE IF Len(platforms) = 1 THEN PlatformChars(platforms[1])
    ELSE PlatformChars(platforms[1]) \o <<",">> \o Join(Tail(platforms))

\* line 19: `${query}-${JSON.stringify(location)}-${filters.platforms.join(',')}`
CacheKey(query, location, platforms) ==
    query \o <<"-">> \o JSON_stringify(location) \o <<"-">> \o Join(platforms)

\* IsFresh counting an entry of exactly CACHE_DURATION as fresh
IsFresh_inclusive(entry, now) == now - entry.timestamp <= CACHE_DURATION

\* line 22: Date.now() - cached.timestamp < this.CACHE_DURATION
IsFresh(entry, now) == now - entry.timestamp < CACHE_DURATION

\* lines 20-22: cached && ...
CacheHit(c, key, now) == key \in DOMAIN c /\ IsFresh(c[key], now)

\* line 30: this.cache.set(cacheKey, { products: results, timestamp: Date.now() })
CacheSet(c, key, ref, now) ==
    [k \in DOMAIN c \cup {key} |->
        IF k = key THEN [products |-> ref, timestamp |-> now] ELSE c[k]]

\* ResultsEffect showing the raw results as they are
ResultsEffect_unsorted(h, rawProducts, filters) ==
    [heap |-> h, products |-> Deref(h, rawProducts)]

\* _layout.tsx lines 111-118 on arrays: the heap after the effect, in which only
\* the arrays that were there before are still referred to, and the products state
ResultsEffect(h, rawProducts, filters) ==
    IF Len(Deref(h, rawProducts)) > 0
    THEN LET r == sortProductsOn(h, rawProducts, filters)
         IN [heap |-> SubSeq(r.heap, 1, Len(h)), products |-> r.heap[r.ref]]
    ELSE [heap |-> h, products |-> <<>>]

-----------------------------------------------------------------------------
(* The variables a specification does not use rest at these values          *)

ParseIdle == pInput = <<>> /\ pOutput = NullQuantity
QtyIdle   == group = <<>> /\ verdict = TRUE
ViewIdle  == viewProducts = <<>> /\ viewRendered = [view |-> "none", list |-> <<>>]
SortIdle  == sReply = <<>> /\ sFilters = <<>> /\ sCall = "none" /\ sOut = <<>>
DelivIdle == dItems = <<>> /\ dFilters = <<>> /\ dCall = "none" /\ dOut = <<>>
ScreenIdle ==
    /\ clock = 0 /\ heap = <<>> /\ cache = <<>> /\ inflight = {}
    /\ issued = 0 /\ rsScreen = 0 /\ rsQuery = <<>> /\ rsLocation = <<>> /\ rsFilters = <<>>
    /\ rsRaw = 0 /\ rsProducts = <<>> /\ rsFrom = 0 /\ rsLatest = 0
SheetIdle ==
    fsLocal = <<>> /\ fsText = <<>> /\ fsApplied = <<>> /\ fsFilters = <<>> /\ fsVisible = FALSE
CardIdle  == cProduct = <<>> /\ cCard = <<>>
LoadIdle  ==
    ldView = "none" /\ ldLoading = FALSE /\ ldInflight = {} /\ ldTimers = {} /\ ldIssued = 0

-----------------------------------------------------------------------------
(* SpecParse: parseQuantity applied to quantity strings                     *)

Leads == { <<>>, <<" ">> }
Numbers == { <<"1">>, <<"0">>, <<"9","0","0">>, <<"1",".","5">>, <<"0",".","2","5">>, <<"1","2">> }
Separators == { <<>>, <<" ">> }
UnitWords ==
    { <<"k","g">>, <<"K","G">>, <<"g">>, <<"g","m">>, <<"g","r","a","m">>,
      <<"g","r","a","m","s">>, <<"k","i","l","o","g","r","a","m">>,
      <<"K","i","l","o","g","r","a","m","s">>, <<"p","a","c","k">>, <<"P","a","c","k">>,
      <<"p","c">>, <<"p","c","s">>, <<"p","i","e","c","e">>, <<"p","i","e","c","e","s">>,
      <<"m","l">>, <<"l">> }
OddStrings ==
    { <<>>, <<"b","a","n","a","n","a">>, <<"k","g">>, <<"1",".","k","g">>,
      <<"1",".","5",".","2","k","g">>, <<"2"," ","x"," ","5","0","0"," ","g">>,
      <<"1"," "," ","k","g">> }

ParseInputs ==
    { l \o n \o sp \o u : l \in Leads, n \in Numbers, sp \in Separators, u \in UnitWords }
    \cup OddStrings

ParseInit ==
    /\ pInput = <<>>
    /\ pOutput = parseQuantity(<<>>)
    /\ QtyIdle /\ ViewIdle /\ SortIdle /\ DelivIdle /\ ScreenIdle /\ SheetIdle /\ CardIdle /\ LoadIdle

CallParseQuantity(q) ==
    /\ pInput' = q
    /\ pOutput' = parseQuantity(q)
    /\ UNCHANGED <<qtyVars, viewVars, sortVars, delivVars,
                   serviceVars, screenVars, sheetVars, cardVars, loadVars>>

ParseNext == \E q \in ParseInputs : CallParseQuantity(q)

SpecParse == ParseInit /\ [][ParseNext]_vars

-----------------------------------------------------------------------------
(* SpecQty: hasMatchingQuantities applied to groups of listings             *)

MaxGroup == 3

Q_1kg    == Str(<<"1"," ","k","g">>)
Q_900g   == Str(<<"9","0","0"," ","g">>)
Q_200g   == Str(<<"2","0","0"," ","g">>)
Q_500gm  == Str(<<"5","0","0"," ","g","m">>)
Q_1pack  == Str(<<"1"," ","p","a","c","k">>)
Q_1Pack  == Str(<<"1"," ","P","a","c","k"," ">>)
Q_banana == Str(<<"b","a","n","a","n","a">>)

\* the quantity strings the groups are built from; Undefined is the missing quantity
QtySamples ==
    { Undefined, Str(<<>>), Q_banana,
      Q_1kg, Q_900g, Q_200g, Q_500gm, Q_1pack, Q_1Pack,
      Str(<<"2"," ","k","g">>),
      Str(<<"0"," ","k","g">>),
      Str(<<"1","0","0","5","g">>),
      Str(<<"5"," ","g">>),
      Str(<<"1","2"," ","g">>),
      Str(<<"2"," ","p","c","s">>),
      Str(<<"1"," ","p","i","e","c","e">>) }

\* a listing as hasMatchingQuantities reads it: only the quantity field is used
Listing(q) == [quantity |-> q]

QtyInit ==
    /\ group = <<>>
    /\ verdict = hasMatchingQuantities(<<>>)
    /\ ParseIdle /\ ViewIdle /\ SortIdle /\ DelivIdle /\ ScreenIdle /\ SheetIdle /\ CardIdle /\ LoadIdle

\* one more listing joins the group and the group is judged
AddListing(q) ==
    /\ Len(group) < MaxGroup
    /\ group' = Append(group, Listing(q))
    /\ verdict' = hasMatchingQuantities(group')
    /\ UNCHANGED <<parseVars, viewVars, sortVars, delivVars,
                   serviceVars, screenVars, sheetVars, cardVars, loadVars>>

QtyNext == \E q \in QtySamples : AddListing(q)

SpecQty == QtyInit /\ [][QtyNext]_vars

-----------------------------------------------------------------------------
(* Claims about the quantity parser and the quantity matcher                *)

Parseable(p) == Truthy(p.quantity) /\ ~parseQuantity(p.quantity.chars).isNull
UnitOf(p)    == parseQuantity(p.quantity.chars).unit
AllParseable(g) == \A i \in 1..Len(g) : Parseable(g[i])
AllWeights(g)   == \A i \in 1..Len(g) : Parseable(g[i]) /\ UnitOf(g[i]) \in {"g", "kg"}
QuantitiesOf(g) == [i \in 1..Len(g) |-> g[i].quantity]

\* a listing's weight in kilograms (g divided by 1000), in millionths of a kilogram
WeightOf(p) ==
    LET q == parseQuantity(p.quantity.chars)
    IN IF q.unit = "g" THEN q.value ELSE 1000 * q.value
\* |v - r| < 0.01 or max(v, r) / min(v, r) <= 2
CloseTo(v, r) ==
    \/ Abs(v - r) < 10000
    \/ (Min2(v, r) > 0 /\ Max2(v, r) <= 2 * Min2(v, r))

\* C1: a group of two or more listings that all parse to weights is compatible
\* exactly when every member's weight v is within 0.01 kg of the first member's
\* weight r or max(v, r) / min(v, r) <= 2; {1 kg, 900 g} and {1 kg, 1 kg} are
\* compatible, {1 kg, 200 g} is not.
C1_ToleranceBand ==
    /\ (Len(group) >= 2 /\ AllWeights(group)) =>
          (verdict <=> \A i \in 1..Len(group) : CloseTo(WeightOf(group[i]), WeightOf(group[1])))
    /\ QuantitiesOf(group) = <<Q_1kg, Q_900g>> => verdict
    /\ QuantitiesOf(group) = <<Q_1kg, Q_1kg>> => verdict
    /\ QuantitiesOf(group) = <<Q_1kg, Q_200g>> => ~verdict

\* a compatible weight group whose second member sits on the edge of the band
C1_Witness ==
    /\ QuantitiesOf(group) = <<Q_1kg, Q_500gm, Q_900g>>
    /\ verdict

\* C2: a group of at most one listing is compatible, a group with no parseable
\* quantity is compatible, and a group of two or more with some but not all
\* quantities parseable is incompatible.
C2_PartialData ==
    /\ Len(group) <= 1 => verdict
    /\ (\A i \in 1..Len(group) : ~Parseable(group[i])) => verdict
    /\ ( /\ Len(group) >= 2
         /\ \E i \in 1..Len(group) : Parseable(group[i])
         /\ \E i \in 1..Len(group) : ~Parseable(group[i]) ) => ~verdict
    /\ QuantitiesOf(group) = <<Q_1kg, Undefined>> => ~verdict
    /\ QuantitiesOf(group) = <<Undefined, Undefined>> => verdict

C2_Witness ==
    /\ QuantitiesOf(group) = <<Q_1kg, Q_900g, Undefined>>
    /\ ~verdict

HasPack(g) == \E i \in 1..Len(g) : Parseable(g[i]) /\ UnitOf(g[i]) = "pack"

\* C3 as stated: when every listing is parseable and one has unit pack, the
\* group is compatible exactly when the raw quantity strings are all equal.
C3_RawStringEquality ==
    (AllParseable(group) /\ HasPack(group)) =>
        (verdict <=> \A i \in 1..Len(group) : group[i].quantity = group[1].quantity)

\* C3, amended: when every listing is parseable and one has unit pack, the group
\* is compatible exactly when the quantity strings are all equal after trimming
\* surrounding white space and lower-casing.
C3_NormalizedStringEquality ==
    (AllParseable(group) /\ HasPack(group)) =>
        (verdict <=> \A i \in 1..Len(group) :
                        toLowerCase(trim(group[i].quantity.chars))
                          = toLowerCase(trim(group[1].quantity.chars)))

\* "1 pack" and "1 Pack " differ as raw strings and are judged compatible
C3_Witness ==
    /\ QuantitiesOf(group) = <<Q_1pack, Q_1Pack>>
    /\ verdict

\* the orders a group of n listings can be handed over in
Orders(n) == { f \in [1..n -> 1..n] : \A i, j \in 1..n : f[i] = f[j] => i = j }

\* C28: the verdict of hasMatchingQuantities does not depend on the order of the
\* listings: every permutation of the group gets the same verdict.
C28_OrderIndependent ==
    \A f \in Orders(Len(group)) :
       hasMatchingQuantities([i \in 1..Len(group) |-> group[f[i]]]) = verdict

\* C4: parseQuantity returns null or a quantity with value > 0 and a unit among
\* kg, g and pack; every accepted unit token is mapped into that set.
C4_NormalizedQuantity ==
    \/ pOutput.isNull
    \/ (pOutput.value > 0 /\ pOutput.unit \in {"kg", "g", "pack"})

-----------------------------------------------------------------------------
(* SpecSort: sortProducts and the two searchProducts narrowings applied to *)
(* lists of matched products                                               *)

MaxProducts == 2

Zepto   == "zepto"
Blinkit == "blinkit"
Milk    == <<"M","i","l","k">>
D_10min == Str(<<"1","0"," ","m","i","n","s">>)
D_15min == Str(<<"1","5"," ","m","i","n","s">>)

\* prices a listing may carry (price > 0, the payload contract), and none
SortPrices == {40, 60}
Offer(plat, price) ==
    [platform |-> plat, price |-> price, quantity |-> Q_1kg,
     deliveryTime |-> IF plat = Zepto THEN D_10min ELSE D_15min]
NameOf(plat) == [platform |-> plat, name |-> Milk]
\* the entries of a record given the price on each platform, 0 for no listing
Offers(z, b) ==
    (IF z = 0 THEN <<>> ELSE <<Offer(Zepto, z)>>) \o (IF b = 0 THEN <<>> ELSE <<Offer(Blinkit, b)>>)
Names(z, b) ==
    (IF z = 0 THEN <<>> ELSE <<NameOf(Zepto)>>) \o (IF b = 0 THEN <<>> ELSE <<NameOf(Blinkit)>>)
Matched(platforms, names) ==
    [name |-> Milk, image |-> <<>>, original_names |-> names, platforms |-> platforms]

Milk_2  == <<"M","i","l","k"," ","2">>
milk_10 == <<"m","i","l","k"," ","1","0">>
\* a record of the given name with one zepto listing
Named(name, price) == [Matched(Offers(price, 0), Names(price, 0)) EXCEPT !.name = name]

\* the records the lists are built from: every combination of listings with the
\* names in step, a record with a name for a platform it has no listing on, and
\* a record with an empty name
SortSamples ==
    { Matched(Offers(z, b), Names(z, b)) : z \in SortPrices \cup {0}, b \in SortPrices \cup {0} }
    \cup { Matched(Offers(40, 0), Names(1, 1)),
           Matched(Offers(60, 40), <<[platform |-> Zepto, name |-> <<>>], NameOf(Blinkit)>>),
           Named(Milk_2, 60), Named(milk_10, 40) }

ListsOf(S, n) == UNION { [1..k -> S] : k \in 0..n }

Defined(v) == [defined |-> TRUE, v |-> v]
NoFilters ==
    [defined |-> FALSE, platforms |-> <<>>, maxPrice |-> NoNumber,
     sortBy |-> [defined |-> FALSE, v |-> ""]]
FilterSamples ==
    { [defined |-> TRUE, platforms |-> ps, maxPrice |-> mp, sortBy |-> Defined(sb)] :
        ps \in { <<>>, <<Zepto>>, <<Blinkit>>, <<Zepto, Blinkit>>, <<Blinkit, Zepto>> },
        mp \in { NoNumber, Num(0), Num(50) },
        sb \in { "price-low", "price-high", "delivery-time", "rating" } }
    \cup { NoFilters }

FailedReply == [ok |-> FALSE, products |-> <<>>]
Replies == { [ok |-> TRUE, products |-> l] : l \in ListsOf(SortSamples, MaxProducts) }
           \cup { FailedReply, RequestFailed }

SortInit ==
    /\ sReply \in Replies
    /\ sFilters \in FilterSamples
    /\ sCall = "none"
    /\ sOut = <<>>
    /\ ParseIdle /\ QtyIdle /\ ViewIdle /\ DelivIdle /\ ScreenIdle /\ SheetIdle /\ CardIdle /\ LoadIdle

CallSortProducts ==
    /\ sCall = "none"
    /\ sReply.ok
    /\ sCall' = "sortProducts"
    /\ sOut' = sortProducts(sReply.products, sFilters)
    /\ sReply' = [sReply EXCEPT !.products = ArgumentAfter(sReply.products, sFilters)]
    /\ UNCHANGED <<sFilters, parseVars, qtyVars, viewVars, delivVars,
                   serviceVars, screenVars, sheetVars, cardVars, loadVars>>

\* searchProducts takes the platform list alone: it is called in the states
\* whose filters carry nothing but a platform list
PlatformsOnly(filters) ==
    filters.defined /\ ~filters.maxPrice.defined /\ filters.sortBy.v = "price-low"

CallGroeaseSearch ==
    /\ sCall = "none"
    /\ PlatformsOnly(sFilters)
    /\ sCall' = "GroeaseAPI.searchProducts"
    /\ sOut' = GroeaseAPI_searchProducts(Milk, sReply, sFilters.platforms)
    /\ UNCHANGED <<sReply, sFilters, parseVars, qtyVars, viewVars, delivVars,
                   serviceVars, screenVars, sheetVars, cardVars, loadVars>>

CallFastEcommerceSearch ==
    /\ sCall = "none"
    /\ PlatformsOnly(sFilters)
    /\ sCall' = "FastEcommerceAPI.searchProducts"
    /\ sOut' = FastEcommerceAPI_searchProducts(Milk, sReply, sFilters.platforms)
    /\ UNCHANGED <<sReply, sFilters, parseVars, qtyVars, viewVars, delivVars,
                   serviceVars, screenVars, sheetVars, cardVars, loadVars>>

\* sortProducts called on its own output with the same filters
CallSortProductsAgain ==
    /\ sCall = "sortProducts"
    /\ sCall' = "sortProducts twice"
    /\ sOut' = sortProducts(sOut, sFilters)
    /\ UNCHANGED <<sReply, sFilters, parseVars, qtyVars, viewVars, delivVars,
                   serviceVars, screenVars, sheetVars, cardVars, loadVars>>

\* the mobile results screen awaiting ProductService.searchProducts (_layout.tsx
\* lines 164-180): it goes on with the list, or lands in its catch
CallMobileSearch ==
    /\ sCall = "none"
    /\ PlatformsOnly(sFilters)
    /\ LET results == Mobile_searchProducts_outcome(Milk, sReply, sFilters)
       IN /\ sCall' = IF results.threw THEN "mobile searchProducts rejected"
                      ELSE "mobile searchProducts"
          /\ sOut' = results.value
    /\ UNCHANGED <<sReply, sFilters, parseVars, qtyVars, viewVars, delivVars,
                   serviceVars, screenVars, sheetVars, cardVars, loadVars>>

\* the web App awaiting ProductService.searchProducts (App.tsx lines 87-110)
CallWebSearch ==
    /\ sCall = "none"
    /\ PlatformsOnly(sFilters)
    /\ LET results == Web_searchProducts_outcome(
                          Milk, sReply,
                          [App_defaultFilters EXCEPT !.platforms = sFilters.platforms])
       IN /\ sCall' = IF results.threw THEN "web searchProducts rejected"
                      ELSE "web searchProducts"
          /\ sOut' = results.value
    /\ UNCHANGED <<sReply, sFilters, parseVars, qtyVars, viewVars, delivVars,
                   serviceVars, screenVars, sheetVars, cardVars, loadVars>>

SortNext ==
    \/ CallSortProducts \/ CallGroeaseSearch \/ CallFastEcommerceSearch
    \/ CallSortProductsAgain \/ CallMobileSearch \/ CallWebSearch

SpecSort == SortInit /\ [][SortNext]_vars

-----------------------------------------------------------------------------
(* Claims about sortProducts and the platform narrowing                     *)

EntrySet(p) == { p.platforms[i] : i \in 1..Len(p.platforms) }
ListingsIn(p, S) == { e \in EntrySet(p) : e.platform \in S }
MinPrice(E) == CHOOSE m \in { e.price : e \in E } : \A e \in E : m <= e.price
ElementsOf(list) == { list[i] : i \in 1..Len(list) }
\* the platforms a filters value selects; an empty or missing list restricts nothing
Selected(filters) ==
    IF filters.defined /\ Len(filters.platforms) > 0
    THEN ElementsOf(filters.platforms)
    ELSE {Zepto, Blinkit}
SortCalled == sCall = "sortProducts"

\* C6: with maxPrice = P, 0 included, every record sortProducts returns has a
\* cheapest price over its remaining listings that is at most P.
C6_PriceCeiling ==
    (SortCalled /\ sFilters.defined /\ sFilters.maxPrice.defined) =>
        \A j \in 1..Len(sOut) :
            EntrySet(sOut[j]) # {} => MinPrice(EntrySet(sOut[j])) <= sFilters.maxPrice.n

\* the input records C7 expects in the output: a listing on a selected platform,
\* and the cheapest of those listings at most P
KeptByCeiling(in, S, P) ==
    { i \in 1..Len(in) : ListingsIn(in[i], S) # {} /\ MinPrice(ListingsIn(in[i], S)) <= P }

\* C7: with maxPrice P > 0 the output holds exactly the records that have a
\* listing on a selected platform and whose cheapest selected-platform listing
\* is at most P, each with its selected-platform listings; a cheap listing on a
\* deselected platform keeps no record.
C7_CeilingAfterNarrowing ==
    (SortCalled /\ sFilters.defined /\ sFilters.maxPrice.defined /\ sFilters.maxPrice.n > 0) =>
        LET in   == sReply.products
            S    == Selected(sFilters)
            Kept == KeptByCeiling(in, S, sFilters.maxPrice.n)
        IN /\ Len(sOut) = Cardinality(Kept)
           /\ \A E \in { EntrySet(sOut[j]) : j \in 1..Len(sOut) }
                        \cup { ListingsIn(in[i], S) : i \in Kept } :
                  Cardinality({ j \in 1..Len(sOut) : EntrySet(sOut[j]) = E })
                    = Cardinality({ i \in Kept : ListingsIn(in[i], S) = E })

\* blinkit is deselected and cheap, zepto is selected and above the ceiling:
\* the record is dropped
C7_Witness ==
    /\ SortCalled
    /\ sFilters.defined /\ sFilters.platforms = <<Zepto>> /\ sFilters.maxPrice = Num(50)
    /\ sReply.products = << Matched(Offers(60, 40), Names(60, 40)),
                            Matched(Offers(40, 60), Names(40, 60)) >>
    /\ Len(sOut) = 1
    /\ Keys(sOut[1].platforms) = <<Zepto>>

NarrowingCalled ==
    \/ SortCalled /\ sFilters.defined
    \/ sCall = "GroeaseAPI.searchProducts"
    \/ sCall = "FastEcommerceAPI.searchProducts"

\* C8: after narrowing to a non-empty selection S every output record has a
\* non-empty platforms map with keys in S, original_names keys among its
\* platforms keys, and comes from an input record with a listing in S; the
\* fetch-time narrowing returns one record for each such input record.
C8_NarrowingInStep ==
    (NarrowingCalled /\ Len(sFilters.platforms) > 0) =>
        LET in == sReply.products
            S  == ElementsOf(sFilters.platforms)
            WithListing == { i \in 1..Len(in) : ListingsIn(in[i], S) # {} }
        IN /\ \A j \in 1..Len(sOut) :
                /\ Len(sOut[j].platforms) > 0
                /\ KeySet(sOut[j].platforms) \subseteq S
                /\ KeySet(sOut[j].original_names) \subseteq KeySet(sOut[j].platforms)
                /\ \E i \in WithListing : ListingsIn(in[i], S) = EntrySet(sOut[j])
           /\ Len(sOut) <= Cardinality(WithListing)
           /\ (~SortCalled /\ sReply.ok) => Len(sOut) = Cardinality(WithListing)

\* the fetch narrows a two-listing record to zepto, drops its blinkit name, and
\* drops the blinkit-only record
C8_Witness ==
    /\ sCall = "GroeaseAPI.searchProducts"
    /\ sFilters.platforms = <<Zepto>>
    /\ sReply.products = << Matched(Offers(0, 40), Names(0, 40)),
                            Matched(Offers(60, 40), Names(60, 40)) >>
    /\ Len(sOut) = 1
    /\ Keys(sOut[1].platforms) = <<Zepto>>
    /\ Keys(sOut[1].original_names) = <<Zepto>>

\* the list sort is applied to
BeforeSort == PriceStep(NarrowStep(sReply.products, sFilters), sFilters)
\* a record without a listing has no cheapest price and counts as dearest
NotDearer(a, b) ==
    \/ EntrySet(b) = {}
    \/ (EntrySet(a) # {} /\ MinPrice(EntrySet(a)) <= MinPrice(EntrySet(b)))
SamePrice(a, b) == NotDearer(a, b) /\ NotDearer(b, a)

\* C9: with sortBy price-low the output is in non-decreasing order of cheapest
\* price, with price-high in non-increasing order, and records with the same
\* cheapest price keep the order they had in the input.
C9_StablePriceSort ==
    (SortCalled /\ SortByOf(sFilters) \in {"price-low", "price-high"}) =>
        /\ Len(sOut) = Len(BeforeSort)
        /\ \A j \in 1..(Len(sOut) - 1) :
              IF SortByOf(sFilters) = "price-low"
              THEN NotDearer(sOut[j], sOut[j + 1])
              ELSE NotDearer(sOut[j + 1], sOut[j])
        /\ \A j \in 1..Len(sOut) :
              SelectSeq(sOut, LAMBDA r : SamePrice(r, sOut[j]))
                = SelectSeq(BeforeSort, LAMBDA r : SamePrice(r, sOut[j]))

\* two different records with the same cheapest price, behind a dearer one in
\* the input, come out first and in their input order
C9_Witness ==
    /\ SortCalled
    /\ sFilters.defined /\ sFilters.sortBy.v = "price-low" /\ sFilters.platforms = <<>>
    /\ sReply.products = << Matched(Offers(40, 60), Names(40, 60)),
                            Matched(Offers(0, 40), Names(0, 40)) >>
    /\ sOut = sReply.products

-----------------------------------------------------------------------------
(* SpecView: the three views applied to lists of matched products           *)

ViewMaxProducts == 2

Milk1L == <<"M","i","l","k"," ","1","L">>
\* a record with a zepto listing at 60 and a blinkit listing at 55, by quantity
Quoted(plat, price, q) ==
    [platform |-> plat, price |-> price, quantity |-> q, deliveryTime |-> D_10min]
Pair(qz, qb) ==
    [name |-> Milk1L, image |-> <<>>,
     original_names |-> <<[platform |-> "zepto", name |-> Milk1L],
                          [platform |-> "blinkit", name |-> Milk1L]>>,
     platforms |-> <<Quoted("zepto", 60, qz), Quoted("blinkit", 55, qb)>>]
Single(qz) ==
    [name |-> Milk1L, image |-> <<>>,
     original_names |-> <<[platform |-> "zepto", name |-> Milk1L]>>,
     platforms |-> <<Quoted("zepto", 60, qz)>>]

ViewSamples ==
    { Pair(Q_1kg, Q_900g), Pair(Q_1kg, Q_200g), Pair(Q_1kg, Undefined),
      Pair(Undefined, Undefined), Pair(Q_1pack, Q_1Pack), Pair(Q_200g, Q_1kg),
      Single(Q_1kg) }

ViewInit ==
    /\ viewProducts \in ListsOf(ViewSamples, ViewMaxProducts)
    /\ viewRendered = [view |-> "none", list |-> <<>>]
    /\ ParseIdle /\ QtyIdle /\ SortIdle /\ DelivIdle /\ ScreenIdle /\ SheetIdle /\ CardIdle /\ LoadIdle

\* the backend's answer to the search
ViewReply == [ok |-> TRUE, products |-> viewProducts]

\* the App of part_010 with the matched products as its products state
RenderLegacyApp ==
    /\ viewRendered.view = "none"
    /\ viewRendered' = [view |-> "LegacyApp", list |-> LegacyApp_filteredProducts(viewProducts)]
    /\ UNCHANGED <<viewProducts, parseVars, qtyVars, sortVars, delivVars,
                   serviceVars, screenVars, sheetVars, cardVars, loadVars>>

\* the web App: the search effect, then the render
RenderApp ==
    /\ viewRendered.view = "none"
    /\ viewRendered' = [view |-> "App",
                        list |-> App_filteredProducts(App_products(Milk1L, ViewReply))]
    /\ UNCHANGED <<viewProducts, parseVars, qtyVars, sortVars, delivVars,
                   serviceVars, screenVars, sheetVars, cardVars, loadVars>>

\* the mobile results screen: the fetch effect, the sort effect, then the render
RenderResultsScreen ==
    /\ viewRendered.view = "none"
    /\ viewRendered' =
          [view |-> "ResultsScreen",
           list |-> ResultsScreen_products(ResultsScreen_rawProducts(Milk1L, ViewReply),
                                           DEFAULT_FILTERS)]
    /\ UNCHANGED <<viewProducts, parseVars, qtyVars, sortVars, delivVars,
                   serviceVars, screenVars, sheetVars, cardVars, loadVars>>

ViewNext == RenderLegacyApp \/ RenderApp \/ RenderResultsScreen

SpecView == ViewInit /\ [][ViewNext]_vars

-----------------------------------------------------------------------------
(* Claims about the rendered lists                                          *)

\* the verdict of hasMatchingQuantities on a matched product's listings
Compatible(p) == hasMatchingQuantities([i \in 1..Len(p.platforms) |-> Listing(p.platforms[i].quantity)])
Rendered == viewRendered.view # "none"

C5_MobileKeepsIncompatibleOut ==
    viewRendered.view = "ResultsScreen" =>
        \A j \in 1..Len(viewRendered.list) : Compatible(viewRendered.list[j])

-----------------------------------------------------------------------------
(* SpecDelivery: the same delivery-time strings, carried by web Products    *)
(* handed to applyFilters and by matched products handed to the mobile      *)
(* sortProducts                                                            *)

MaxDeliveries == 3

T_10_20mins == Str(<<"1","0","-","2","0"," ","m","i","n","s">>)
T_15mins    == Str(<<"1","5"," ","m","i","n","s">>)
T_5_12Min   == Str(<<"5","-","1","2"," ","M","i","n">>)
T_1hour     == Str(<<"1"," ","h","o","u","r">>)
T_soon      == Str(<<"s","o","o","n">>)
DeliverySamples == { T_10_20mins, T_15mins, T_5_12Min, T_1hour, T_soon, Undefined }

\* the web Product with the i-th delivery time
WebProduct(i, t) ==
    [id |-> i, platform |-> Zepto, price |-> 50, rating |-> 4, reviewCount |-> 10,
     deliveryTime |-> t, deliveryFee |-> NoNumber]
WebProducts(items) == [i \in 1..Len(items) |-> WebProduct(i, items[i])]

\* the matched product with one zepto listing that has the i-th delivery time
ItemName(i) == <<"P", <<"1","2","3","4","5","6","7","8","9">>[i]>>
MobileProduct(i, t) ==
    [name |-> ItemName(i), image |-> <<>>,
     original_names |-> <<[platform |-> Zepto, name |-> ItemName(i)]>>,
     platforms |-> <<[platform |-> Zepto, price |-> 50, quantity |-> Q_1kg,
                      deliveryTime |-> t]>>]
MobileProducts(items) == [i \in 1..Len(items) |-> MobileProduct(i, items[i])]

DeliveryFilters ==
    { [platforms |-> ps, minPrice |-> NoNumber, maxPrice |-> NoNumber, minRating |-> NoNumber,
       sortBy |-> sb, maxDeliveryTime |-> md] :
        ps \in { <<>>, <<Zepto>>, <<Blinkit>> },
        sb \in { "price-low", "delivery-time" },
        md \in { NoNumber, Num(15), Num(25) } }

\* the fields of ComparisonFilters the mobile sortProducts takes
MobileFilters(filters) ==
    [defined |-> TRUE, platforms |-> filters.platforms, maxPrice |-> filters.maxPrice,
     sortBy |-> Defined(filters.sortBy)]

DeliveryInit ==
    /\ dItems \in ListsOf(DeliverySamples, MaxDeliveries)
    /\ dFilters \in DeliveryFilters
    /\ dCall = "none"
    /\ dOut = <<>>
    /\ ParseIdle /\ QtyIdle /\ ViewIdle /\ SortIdle /\ ScreenIdle /\ SheetIdle /\ CardIdle /\ LoadIdle

CallApplyFilters ==
    /\ dCall = "none"
    /\ dCall' = "applyFilters"
    /\ dOut' = applyFilters(WebProducts(dItems), dFilters)
    /\ UNCHANGED <<dItems, dFilters, parseVars, qtyVars, viewVars, sortVars,
                   serviceVars, screenVars, sheetVars, cardVars, loadVars>>

CallMobileSortProducts ==
    /\ dCall = "none"
    /\ dCall' = "sortProducts"
    /\ dOut' = sortProducts(MobileProducts(dItems), MobileFilters(dFilters))
    /\ UNCHANGED <<dItems, dFilters, parseVars, qtyVars, viewVars, sortVars,
                   serviceVars, screenVars, sheetVars, cardVars, loadVars>>

DeliveryNext == CallApplyFilters \/ CallMobileSortProducts

SpecDelivery == DeliveryInit /\ [][DeliveryNext]_vars

-----------------------------------------------------------------------------
(* Claims about delivery-time strings                                       *)

\* what the sample strings say: a range "a-b min" or a single "n mins"
InMinutes == { T_10_20mins, T_15mins, T_5_12Min }
LowerBound(t) == IF t = T_10_20mins THEN 10 ELSE IF t = T_5_12Min THEN 5 ELSE 15
UpperBound(t) == IF t = T_10_20mins THEN 20 ELSE IF t = T_5_12Min THEN 12 ELSE 15

\* the delivery time an output record carries
TimeOf(r) == IF dCall = "applyFilters" THEN r.deliveryTime ELSE r.platforms[1].deliveryTime
SortedByLower ==
    \A i, j \in 1..Len(dOut) :
        (i < j /\ TimeOf(dOut[i]) \in InMinutes /\ TimeOf(dOut[j]) \in InMinutes)
            => LowerBound(TimeOf(dOut[i])) <= LowerBound(TimeOf(dOut[j]))
SortedByUpper ==
    \A i, j \in 1..Len(dOut) :
        (i < j /\ TimeOf(dOut[i]) \in InMinutes /\ TimeOf(dOut[j]) \in InMinutes)
            => UpperBound(TimeOf(dOut[i])) <= UpperBound(TimeOf(dOut[j]))
\* with a ceiling set, a Product on a selected platform stays exactly when the
\* upper bound of its delivery time is within the ceiling
CeilingByUpper ==
    (/\ dCall = "applyFilters"
     /\ TruthyNum(dFilters.maxDeliveryTime)
     /\ (dFilters.platforms = <<>> \/ Includes(dFilters.platforms, Zepto)))
        => \A i \in 1..Len(dItems) :
              dItems[i] \in InMinutes =>
                  (WebProduct(i, dItems[i]) \in ElementsOf(dOut)
                      <=> UpperBound(dItems[i]) <= dFilters.maxDeliveryTime.n)

\* C10 as stated: a range "a-b min" counts as b for the maxDeliveryTime ceiling
\* and as a wherever records are sorted by delivery-time, in the web sortProducts
\* as in the mobile one.
C10_UpperForCeilingLowerForSort ==
    /\ CeilingByUpper
    /\ (dCall # "none" /\ dFilters.sortBy = "delivery-time") => SortedByLower

\* C10, amended: a range "a-b min" counts as b for the maxDeliveryTime ceiling of
\* the web applyFilters and for the delivery-time sort of the web sortProducts;
\* it counts as a only in the delivery-time sort of the mobile sortProducts.
C10_UpperInWebLowerInMobile ==
    /\ CeilingByUpper
    /\ (dCall = "applyFilters" /\ dFilters.sortBy = "delivery-time") => SortedByUpper
    /\ (dCall = "sortProducts" /\ dFilters.sortBy = "delivery-time") => SortedByLower

\* "10-20 mins" passes a ceiling of 25 and the web sort puts it behind "15 mins"
C10_Witness ==
    /\ dCall = "applyFilters"
    /\ dItems = <<T_10_20mins, T_15mins>>
    /\ dFilters.maxDeliveryTime = Num(25)
    /\ dFilters.sortBy = "delivery-time"
    /\ dOut = <<WebProduct(2, T_15mins), WebProduct(1, T_10_20mins)>>

-----------------------------------------------------------------------------
(* Claims about calling sortProducts again                                  *)

\* C11: sortProducts applied to its own output with the same filters returns
\* that output: same length, same order, same records with the same platforms
\* and original_names.
C11_Idempotent == [][CallSortProductsAgain => sOut' = sOut]_vars

\* the second call has run on a list that the first call narrowed and reordered
C11_Witness ==
    /\ sCall = "sortProducts twice"
    /\ sFilters.defined /\ sFilters.platforms = <<Blinkit, Zepto>>
    /\ sFilters.sortBy.v = "price-low"
    /\ sReply.products = << Matched(Offers(60, 0), Names(60, 0)),
                            Matched(Offers(60, 40), Names(60, 40)) >>
    /\ Len(sOut) = 2
    /\ Keys(sOut[1].platforms) = <<Blinkit, Zepto>>

\* C12: sortProducts leaves the array it is handed as it was, in length, order
\* and records, for every filters value, and returns the list that the steps
\* on arrays produce.
C12_InputUntouched ==
    [][CallSortProducts =>
          /\ sReply' = sReply
          /\ sOut' = LET r == sortProductsOn(<<sReply.products>>, 1, sFilters)
                     IN r.heap[r.ref]]_vars

\* a call without filters that had to reorder: the output is sorted, the input is not
C12_Witness ==
    /\ sCall = "sortProducts"
    /\ ~sFilters.defined
    /\ sReply.products = << Matched(Offers(60, 0), Names(60, 0)),
                            Matched(Offers(40, 0), Names(40, 0)) >>
    /\ sOut = << Matched(Offers(40, 0), Names(40, 0)),
                 Matched(Offers(60, 0), Names(60, 0)) >>

-----------------------------------------------------------------------------
(* Failed searches                                                          *)

SearchAwaited ==
    sCall \in { "mobile searchProducts", "mobile searchProducts rejected",
                "web searchProducts", "web searchProducts rejected" }
BackendFailed == Failed(sReply) \/ ~sReply.ok

\* C17: when the backend answers with a non-2xx status or the request fails,
\* ProductService.searchProducts of the mobile app and of the web app resolves
\* with the empty list; its promise is never rejected.
C17_FailureGivesEmptyList ==
    (SearchAwaited /\ BackendFailed)
        => /\ sCall \in { "mobile searchProducts", "web searchProducts" }
           /\ sOut = <<>>

C17_Witness ==
    /\ sCall = "mobile searchProducts"
    /\ Failed(sReply)
    /\ sOut = <<>>

\* the minutes of a delivery time, an hour counting as 60 and a range as its
\* lower bound
MinutesWithHours(t) == IF t = T_1hour THEN 60 ELSE LowerBound(t)

\* C23: with sortBy delivery-time the mobile sortProducts orders the records
\* ascending by their delivery time in minutes, "1 hour" counting as 60 minutes.
C23_HoursCountSixtyMinutes ==
    (dCall = "sortProducts" /\ dFilters.sortBy = "delivery-time") =>
       \A i, j \in 1..Len(dOut) :
          (/\ i < j
           /\ TimeOf(dOut[i]) \in InMinutes \cup { T_1hour }
           /\ TimeOf(dOut[j]) \in InMinutes \cup { T_1hour })
             => MinutesWithHours(TimeOf(dOut[i])) <= MinutesWithHours(TimeOf(dOut[j]))

\* delivery times without minutes to read: missing, or not parseable
UnknownTimes == { Undefined, T_soon }

\* C24: the web ProductService treats a listing whose delivery time is missing
\* or unparseable as 999 minutes: every maxDeliveryTime ceiling below 999
\* removes it, and the delivery-time sort puts it behind every listing with a
\* parseable delivery time.
C24_UnknownTimeIs999 ==
    dCall = "applyFilters" =>
       /\ (TruthyNum(dFilters.maxDeliveryTime) /\ dFilters.maxDeliveryTime.n < 999) =>
             \A i \in 1..Len(dOut) : TimeOf(dOut[i]) \notin UnknownTimes
       /\ dFilters.sortBy = "delivery-time" =>
             \A i, j \in 1..Len(dOut) :
                (i < j /\ TimeOf(dOut[i]) \in UnknownTimes)
                   => TimeOf(dOut[j]) \in UnknownTimes

\* sortBy is unspecified: no filters, or filters without a sortBy
SortByUnspecified == ~(sFilters.defined /\ sFilters.sortBy.defined)
\* descending number of listings, ties by the comparison of the names
ByPlatformCountThenName ==
    \A i, j \in 1..Len(sOut) :
       i < j => \/ Len(sOut[i].platforms) > Len(sOut[j].platforms)
                \/ /\ Len(sOut[i].platforms) = Len(sOut[j].platforms)
                   /\ localeCompare(sOut[i].name, sOut[j].name) <= 0
\* ascending cheapest price, records without a price last
ByCheapestPrice ==
    \A i, j \in 1..Len(sOut) :
       i < j => PriceDifference(cheapestPrice(sOut[i]), cheapestPrice(sOut[j])) <= 0

C22_WebReturnsSelectedProducts ==
    (sCall = "web searchProducts" /\ sReply.ok /\ Len(sFilters.platforms) > 0) =>
       \A i \in 1..Len(sReply.products) :
          (\E k \in 1..Len(sReply.products[i].platforms) :
              Includes(sFilters.platforms, sReply.products[i].platforms[k].platform))
             => \E j \in 1..Len(sOut) : sOut[j].name = sReply.products[i].name

\* C20: with an empty platform selection the filter functions restrict nothing
\* by platform: the web applyFilters keeps every Product the delivery ceiling
\* lets through, and the mobile sortProducts keeps every record with every
\* listing and name it came with.
C20_EmptySelectionRestrictsNothing ==
    Len(dFilters.platforms) = 0 =>
       /\ dCall = "applyFilters" =>
             \A i \in 1..Len(dItems) :
                (\/ ~TruthyNum(dFilters.maxDeliveryTime)
                 \/ dItems[i] = Undefined
                 \/ (dItems[i] \in InMinutes
                        /\ UpperBound(dItems[i]) <= dFilters.maxDeliveryTime.n))
                    => WebProduct(i, dItems[i]) \in ElementsOf(dOut)
       /\ dCall = "sortProducts" =>
             /\ Len(dOut) = Len(dItems)
             /\ \A i \in 1..Len(dItems) : MobileProduct(i, dItems[i]) \in ElementsOf(dOut)

C20_Witness ==
    /\ Len(dFilters.platforms) = 0
    /\ dCall = "sortProducts"
    /\ Len(dItems) >= 2
    /\ Len(dOut) = Len(dItems)

\* C18: whatever the filters, the output of sortProducts holds no record whose
\* platforms map is empty.
C18_NoEmptyRecord ==
    SortCalled => \A j \in 1..Len(sOut) : Len(sOut[j].platforms) > 0

-----------------------------------------------------------------------------
(* SpecScreen: the mobile app searching from the home screen, changing the  *)
(* location and the filters in the results screen, the backend answering,   *)
(* and time passing                                                        *)

MaxSearches == 2
MaxClock == 5

Q_milk == <<"m","i","l","k">>
ScreenQueries == { Q_milk, Milk }
India == <<"I","n","d","i","a">>
Pune ==
    [city |-> <<"P","u","n","e">>, state |-> <<"M","H">>, country |-> India,
     coordinates |-> [lat |-> 18, lng |-> 73]]
Delhi ==
    [city |-> <<"D","e","l","h","i">>, state |-> <<"D","L">>, country |-> India,
     coordinates |-> [lat |-> 28, lng |-> 77]]
ScreenLocations == { Pune, Delhi }

\* what the backend may answer: a list, or a failure
ScreenReplies ==
    { [ok |-> TRUE, products |-> << Matched(Offers(60, 40), Names(60, 40)),
                                    Matched(Offers(40, 0), Names(40, 0)) >>],
      FailedReply }

\* filters the filter sheet may hand to onApply
ScreenFilters ==
    { [defined |-> TRUE, platforms |-> <<Zepto>>, maxPrice |-> Num(50),
       sortBy |-> Defined("price-low")] }

ScreenInit ==
    /\ clock = 0 /\ heap = <<>> /\ cache = <<>> /\ inflight = {}
    /\ issued = 0 /\ rsScreen = 0 /\ rsQuery = <<>> /\ rsLocation = Pune
    /\ rsFilters = DEFAULT_FILTERS
    /\ rsRaw = 0 /\ rsProducts = <<>> /\ rsFrom = 0 /\ rsLatest = 0
    /\ ParseIdle /\ QtyIdle /\ ViewIdle /\ SortIdle /\ DelivIdle /\ SheetIdle /\ CardIdle /\ LoadIdle

\* _layout.tsx lines 155-182 with ProductService.searchProducts lines 14-36, up
\* to the backend request: a fresh entry is returned (and shown) at once, a blank
\* query gives [], and otherwise a request is left in flight
FetchEffect(screen, query, location, filters) ==
    LET key == CacheKey(query, location, allPlatforms)
        id  == issued + 1
    IN /\ issued' = id
       /\ rsLatest' = id
       /\ cache' = cache
       /\ IF CacheHit(cache, key, clock)
          THEN LET e == ResultsEffect(heap, cache[key].products, filters)
               IN /\ rsRaw' = cache[key].products /\ rsFrom' = id
                  /\ rsProducts' = e.products /\ heap' = e.heap
                  /\ inflight' = inflight
          ELSE /\ rsRaw' = 0 /\ rsProducts' = <<>> /\ heap' = heap
               /\ IF trim(query) = <<>>
                  THEN rsFrom' = id /\ inflight' = inflight
                  ELSE /\ rsFrom' = 0
                       /\ inflight' = inflight \cup
                             {[id |-> id, key |-> key, query |-> query, screen |-> screen]}

\* index.tsx lines 95-108: router.push of a new results screen, with the
\* location of the home screen
HomeLocation == Pune
OpenResults(q) ==
    /\ issued < MaxSearches
    /\ rsScreen' = rsScreen + 1
    /\ rsQuery' = q
    /\ rsLocation' = HomeLocation
    /\ rsFilters' = DEFAULT_FILTERS
    /\ FetchEffect(rsScreen + 1, q, HomeLocation, DEFAULT_FILTERS)
    /\ UNCHANGED <<clock, parseVars, qtyVars, viewVars, sortVars, delivVars, sheetVars, cardVars, loadVars>>

\* _layout.tsx lines 140-153: handleLocationChange sets a new location object
ChangeLocation(loc) ==
    /\ rsScreen > 0
    /\ issued < MaxSearches
    /\ rsLocation' = loc
    /\ FetchEffect(rsScreen, rsQuery, loc, rsFilters)
    /\ UNCHANGED <<clock, rsScreen, rsQuery, rsFilters,
                   parseVars, qtyVars, viewVars, sortVars, delivVars, sheetVars, cardVars, loadVars>>

\* the backend answers a request: GroeaseAPI.searchProducts returns, the entry is
\* set (line 30), and the screen that asked, if it is the one on top, takes the
\* results (line 170) and recomputes its products
CompleteRequest(req, reply) ==
    LET results == GroeaseAPI_searchProducts(req.query, reply, allPlatforms)
        h1      == Append(heap, results)
        ref     == Len(heap) + 1
    IN /\ inflight' = inflight \ {req}
       /\ cache' = CacheSet(cache, req.key, ref, clock)
       /\ IF req.screen = rsScreen
          THEN LET e == ResultsEffect(h1, ref, rsFilters)
               IN /\ heap' = e.heap /\ rsRaw' = ref /\ rsFrom' = req.id
                  /\ rsProducts' = e.products
          ELSE heap' = h1 /\ UNCHANGED <<rsRaw, rsFrom, rsProducts>>
       /\ UNCHANGED <<clock, issued, rsScreen, rsQuery, rsLocation, rsFilters, rsLatest,
                      parseVars, qtyVars, viewVars, sortVars, delivVars, sheetVars, cardVars, loadVars>>

\* setFilters(newFilters) and the effect of lines 111-118
SetFilters(newFilters) ==
    LET e == ResultsEffect(heap, rsRaw, newFilters)
    IN /\ rsScreen > 0
       /\ rsFilters' = newFilters
       /\ rsProducts' = e.products
       /\ heap' = e.heap
       /\ UNCHANGED <<clock, cache, inflight, issued, rsScreen, rsQuery, rsLocation, rsRaw,
                      rsFrom, rsLatest,
                      parseVars, qtyVars, viewVars, sortVars, delivVars, sheetVars, cardVars, loadVars>>

\* _layout.tsx lines 184-187: handleApplyFilters
ApplyFilters == \E f \in ScreenFilters : SetFilters(f)
\* _layout.tsx lines 256 and 289: Clear
ClearFilters == SetFilters(DEFAULT_FILTERS)

Tick ==
    /\ clock < MaxClock
    /\ clock' = clock + 1
    /\ UNCHANGED <<heap, cache, inflight, screenVars,
                   parseVars, qtyVars, viewVars, sortVars, delivVars, sheetVars, cardVars, loadVars>>

ScreenNext ==
    \/ \E q \in ScreenQueries : OpenResults(q)
    \/ \E loc \in ScreenLocations : ChangeLocation(loc)
    \/ \E req \in inflight, reply \in ScreenReplies : CompleteRequest(req, reply)
    \/ ApplyFilters
    \/ ClearFilters
    \/ Tick

SpecScreen == ScreenInit /\ [][ScreenNext]_vars

-----------------------------------------------------------------------------
(* Claims about the cache and the results screen                            *)

\* a step that starts a search, and the cache key of that search
Searching == issued' = issued + 1
SearchKey == CacheKey(rsQuery', rsLocation', allPlatforms)
\* a step in which the backend answers a request
Answered == inflight \ inflight'

\* no step changes an array that is already allocated: rawProducts and the
\* cache entry that refers to the same array keep their contents
ArraysKept == [][\A r \in 1..Len(heap) : Len(heap') >= r /\ heap'[r] = heap[r]]_vars

\* C13: a search whose key has an entry stored less than 5 minutes earlier
\* takes the stored list as it is and sends no request; a search whose key has
\* no entry, or one that is 5 minutes old or older, sends a request for that
\* key; when a request is answered its key's entry becomes the new result with
\* the time of the answer, and no other entry changes.
C13_CacheTTL ==
    [][/\ Searching =>
            IF SearchKey \in DOMAIN cache /\ clock - cache[SearchKey].timestamp < 5
            THEN /\ inflight' = inflight
                 /\ cache' = cache
                 /\ rsRaw' = cache[SearchKey].products
                 /\ heap'[rsRaw'] = heap[rsRaw']
            ELSE \E req \in inflight' :
                    /\ req \notin inflight
                    /\ req.key = SearchKey
                    /\ inflight' = inflight \cup {req}
       /\ \A req \in Answered :
            /\ Len(heap') = Len(heap) + 1
            /\ DOMAIN cache' = DOMAIN cache \cup {req.key}
            /\ cache'[req.key] = [products |-> Len(heap'), timestamp |-> clock]
            /\ \A k \in DOMAIN cache \ {req.key} : cache'[k] = cache[k]]_vars

\* the second search for a key found the entry stored 4 minutes earlier
C13_Witness ==
    /\ issued = 2 /\ rsFrom = 2 /\ inflight = {}
    /\ Len(heap) = 1 /\ rsRaw = 1
    /\ clock = 4
    /\ \A k \in DOMAIN cache : cache[k].timestamp = 0

\* C14: searches with the same location whose queries differ only in letter
\* case or surrounding blanks, or whose platform lists hold the same platforms
\* in another order, use the same cache entry: they have the same key, and the
\* second one finds the fresh entry of the first and sends no request.
C14_NormalizedKey ==
    [][/\ \A q1, q2 \in ScreenQueries : \A p1, p2 \in {allPlatforms, defaultPlatforms} :
            toLowerCase(trim(q1)) = toLowerCase(trim(q2))
                => CacheKey(q1, rsLocation, p1) = CacheKey(q2, rsLocation, p2)
       /\ (/\ Searching
           /\ \E q \in ScreenQueries :
                LET k == CacheKey(q, rsLocation', allPlatforms)
                IN /\ toLowerCase(trim(q)) = toLowerCase(trim(rsQuery'))
                   /\ k \in DOMAIN cache
                   /\ clock - cache[k].timestamp < 5)
          => inflight' = inflight]_vars

\* C15: a filter change sends no request and starts no search, leaves the raw
\* results alone, and the list shown after it is sortProducts of the raw results
\* and the new filters.
C15_FilterChangeIsLocal ==
    [][(ApplyFilters \/ ClearFilters) =>
          /\ inflight' = inflight
          /\ issued' = issued
          /\ rsRaw' = rsRaw
          /\ heap' = heap
          /\ rsProducts' = sortProducts(Deref(heap, rsRaw), rsFilters')]_vars

\* filters were applied to two raw results and one is left on show
C15_Witness ==
    /\ rsFilters \in ScreenFilters
    /\ issued = 1 /\ inflight = {}
    /\ Len(Deref(heap, rsRaw)) = 2
    /\ Len(rsProducts) = 1

\* C16: when no request is in flight any more, the raw results on show are
\* those of the search that was started last.
C16_LatestSearchShown ==
    (rsScreen > 0 /\ inflight = {}) => rsFrom = rsLatest

\* C26: at most one backend request per cache key is outstanding: a search
\* started while a request for the same query, location and platform list is
\* in flight issues no request of its own.
C26_OneRequestPerKey ==
    \A r1, r2 \in inflight : r1.key = r2.key => r1 = r2

\* C27: a failed backend search stores nothing in the cache of ProductService,
\* so that the next search for the same key asks the backend again.
C27_FailureNotCached ==
    [][\A req \in inflight : CompleteRequest(req, FailedReply) => cache' = cache]_vars

-----------------------------------------------------------------------------
(* SpecSheet: the FilterSheet of the mobile results screen                  *)
(* (src/groease-mobile/src/components/FilterSheet.tsx). fsLocal is the      *)
(* state localFilters, fsText the state maxPriceText, and fsApplied holds   *)
(* the filters of the last call of onApply.                                 *)

\* the sheet offers the first MaxPlatforms platforms of allPlatforms
MaxPlatforms == 2
SheetPlatforms == SubSeq(allPlatforms, 1, MaxPlatforms)

SORT_OPTIONS == { "price-low", "price-high", "delivery-time", "rating" }
PriceTexts == { <<>>, <<"5", "0">> }

\* Number(maxPriceText) on a text of digits; NaN, as falsy as undefined, otherwise
NumberFromText(text) ==
    LET t == trim(text)
    IN IF t # <<>> /\ \A i \in 1..Len(t) : IsDigit(t[i]) THEN Num(parseInt(t)) ELSE NoNumber

\* lines 40-43: the selection after the press
TogglePressed(current, platform) ==
    IF Includes(current, platform)
    THEN SelectSeq(current, LAMBDA p : p # platform)
    ELSE Append(current, platform)

\* togglePlatform without the return of line 45
togglePlatform_unguarded(localFilters, platform) ==
    [localFilters EXCEPT !.platforms = TogglePressed(localFilters.platforms, platform)]

\* lines 39-47: localFilters after togglePlatform(platform)
togglePlatform(localFilters, platform) ==
    LET next == TogglePressed(localFilters.platforms, platform)
    IN IF Len(next) = 0 THEN localFilters
       ELSE [localFilters EXCEPT !.platforms = next]

\* lines 49-52: the argument of onApply
handleApply(localFilters, maxPriceText) ==
    [localFilters EXCEPT
       !.maxPrice = IF trim(maxPriceText) # <<>> THEN NumberFromText(maxPriceText)
                    ELSE NoNumber]

\* lines 54-62: localFilters after Reset
handleReset ==
    [defined |-> TRUE, platforms |-> SheetPlatforms, maxPrice |-> NoNumber,
     sortBy |-> Defined("price-low")]

\* _layout.tsx lines 66-69, on the platforms of the sheet
SheetDefaults == [DEFAULT_FILTERS EXCEPT !.platforms = SheetPlatforms]

\* lines 34-37: the sheet is mounted with the screen, closed (_layout.tsx line
\* 96), and takes its state from the screen's filters, then DEFAULT_FILTERS
SheetInit ==
    /\ fsFilters = SheetDefaults
    /\ fsVisible = FALSE
    /\ fsLocal = fsFilters
    /\ fsText = IF TruthyNum(fsFilters.maxPrice) THEN NumberChars(fsFilters.maxPrice.n) ELSE <<>>
    /\ fsApplied = <<>>
    /\ ParseIdle /\ QtyIdle /\ ViewIdle /\ SortIdle /\ DelivIdle /\ ScreenIdle /\ CardIdle /\ LoadIdle

\* _layout.tsx line 218: the filter button
OpenSheet ==
    /\ ~fsVisible
    /\ fsVisible' = TRUE
    /\ UNCHANGED <<fsLocal, fsText, fsApplied, fsFilters, parseVars, qtyVars, viewVars, sortVars, delivVars,
                   serviceVars, screenVars, cardVars, loadVars>>

\* _layout.tsx line 323: onClose
CloseSheet ==
    /\ fsVisible
    /\ fsVisible' = FALSE
    /\ UNCHANGED <<fsLocal, fsText, fsApplied, fsFilters, parseVars, qtyVars, viewVars, sortVars, delivVars,
                   serviceVars, screenVars, cardVars, loadVars>>

\* _layout.tsx lines 256 and 289: Clear on the screen, the sheet being closed
PressClear ==
    /\ ~fsVisible
    /\ fsFilters' = SheetDefaults
    /\ UNCHANGED <<fsLocal, fsText, fsApplied, fsVisible, parseVars, qtyVars, viewVars, sortVars, delivVars,
                   serviceVars, screenVars, cardVars, loadVars>>

PressPlatform(platform) ==
    /\ fsVisible
    /\ fsLocal' = togglePlatform(fsLocal, platform)
    /\ UNCHANGED <<fsText, fsApplied, fsFilters, fsVisible, parseVars, qtyVars, viewVars, sortVars, delivVars,
                   serviceVars, screenVars, cardVars, loadVars>>

\* line 86
PressSortOption(sortBy) ==
    /\ fsVisible
    /\ fsLocal' = [fsLocal EXCEPT !.sortBy = Defined(sortBy)]
    /\ UNCHANGED <<fsText, fsApplied, fsFilters, fsVisible, parseVars, qtyVars, viewVars, sortVars, delivVars,
                   serviceVars, screenVars, cardVars, loadVars>>

\* onChangeText of the max-price input
TypeMaxPrice(text) ==
    /\ fsVisible
    /\ fsText' = text
    /\ UNCHANGED <<fsLocal, fsApplied, fsFilters, fsVisible, parseVars, qtyVars, viewVars, sortVars, delivVars,
                   serviceVars, screenVars, cardVars, loadVars>>

PressReset ==
    /\ fsVisible
    /\ fsLocal' = handleReset
    /\ fsText' = <<>>
    /\ UNCHANGED <<fsApplied, fsFilters, fsVisible, parseVars, qtyVars, viewVars, sortVars, delivVars,
                   serviceVars, screenVars, cardVars, loadVars>>

\* handleApply, then handleApplyFilters of the screen (_layout.tsx lines 184-187)
PressApply ==
    /\ fsVisible
    /\ fsApplied' = <<handleApply(fsLocal, fsText)>>
    /\ fsFilters' = handleApply(fsLocal, fsText)
    /\ fsVisible' = FALSE
    /\ UNCHANGED <<fsLocal, fsText, parseVars, qtyVars, viewVars, sortVars, delivVars,
                   serviceVars, screenVars, cardVars, loadVars>>

SheetNext ==
    \/ \E platform \in { SheetPlatforms[i] : i \in 1..Len(SheetPlatforms) } :
          PressPlatform(platform)
    \/ \E sortBy \in SORT_OPTIONS : PressSortOption(sortBy)
    \/ \E text \in PriceTexts : TypeMaxPrice(text)
    \/ PressReset
    \/ PressApply
    \/ OpenSheet
    \/ CloseSheet
    \/ PressClear

SpecSheet == SheetInit /\ [][SheetNext]_vars

\* C19: the platform selection of the sheet and of the filters handed to onApply
\* is never empty, and pressing the only selected platform leaves the selection
\* as it was.
C19_SelectionNeverEmpty ==
    /\ [](/\ Len(fsLocal.platforms) > 0
          /\ \A i \in 1..Len(fsApplied) : Len(fsApplied[i].platforms) > 0)
    /\ [][\A i \in 1..Len(SheetPlatforms) :
             (PressPlatform(SheetPlatforms[i]) /\ fsLocal.platforms = <<SheetPlatforms[i]>>)
                 => fsLocal' = fsLocal]_vars

\* one platform is left selected and has been applied
C19_Witness ==
    /\ Len(fsLocal.platforms) = 1
    /\ Len(fsApplied) = 1
    /\ fsApplied[1].platforms = fsLocal.platforms

\* C30: whenever the sheet is opened, what it shows, and so what Apply would
\* pass on with no control touched, equals the filters applied in the screen.
C30_SheetShowsApplied ==
    [][OpenSheet => handleApply(fsLocal, fsText) = fsFilters]_vars

-----------------------------------------------------------------------------
(* SpecCard: the card of one matched product, ProductCard of the mobile app  *)
(* (src/groease-mobile/src/components/ProductCard.tsx) and                  *)
(* ProductComparisonTable of the web app                                    *)
(* (src/src/components/ProductComparisonTable.tsx). A price is a number, as *)
(* the type MatchedProduct declares it.                                     *)

\* CardCompare with the operands exchanged
CardCompare_descending(a, b) == Sign(b.price - a.price)

\* ProductCard.tsx line 31: (a, b) => a.price - b.price
CardCompare(a, b) == Sign(a.price - b.price)

RECURSIVE CardInsertSorted(_, _)
CardInsertSorted(sorted, x) ==
    IF sorted # <<>> /\ CardCompare(x, sorted[Len(sorted)]) < 0
    THEN Append(CardInsertSorted(SubSeq(sorted, 1, Len(sorted) - 1), x), sorted[Len(sorted)])
    ELSE Append(sorted, x)
\* platformEntries.sort(...), a stable sort
RECURSIVE CardSort(_)
CardSort(entries) ==
    IF entries = <<>> THEN <<>>
    ELSE CardInsertSorted(CardSort(SubSeq(entries, 1, Len(entries) - 1)), entries[Len(entries)])

NoCard == [view |-> "none", shown |-> FALSE, rows |-> <<>>, savings |-> 0,
           hasComparison |-> FALSE]

\* the rows of sorted.map(...): each entry with its isCheapest
CardRows(sorted) ==
    [i \in 1..Len(sorted) |->
        [platform |-> sorted[i].platform, price |-> sorted[i].price,
         isCheapest |-> sorted[i].price = sorted[1].price]]

\* ProductCard.tsx lines 22-35 and 87-88
ProductCard(matchedProduct) ==
    IF Len(matchedProduct.platforms) = 0
    THEN [NoCard EXCEPT !.view = "ProductCard"]
    ELSE LET sorted == CardSort(matchedProduct.platforms)
             cheapest == sorted[1].price
             mostExpensivePrice == sorted[Len(sorted)].price
             savings == mostExpensivePrice - cheapest
         IN [view |-> "ProductCard", shown |-> TRUE, rows |-> CardRows(sorted),
             savings |-> savings, hasComparison |-> Len(sorted) > 1 /\ savings > 0]

\* ProductComparisonTable.tsx lines 280-302 and 340-341: no savings are computed
ProductComparisonTable(matchedProduct) ==
    IF Len(matchedProduct.platforms) = 0
    THEN [NoCard EXCEPT !.view = "ProductComparisonTable"]
    ELSE [view |-> "ProductComparisonTable", shown |-> TRUE,
          rows |-> CardRows(CardSort(matchedProduct.platforms)),
          savings |-> 0, hasComparison |-> FALSE]

\* a matched product has at most MaxListings listings
MaxListings == 3
CardPlatforms == { allPlatforms[i] : i \in 1..MaxListings }
CardPrices == { 40, 55, 60 }
CardListing(plat, price) ==
    [platform |-> plat, price |-> price, quantity |-> Q_1kg, deliveryTime |-> D_10min]
\* the platforms objects: every order of keys, every price on each
CardListings ==
    { l \in UNION { [1..k -> { CardListing(plat, price) :
                                 plat \in CardPlatforms, price \in CardPrices }] :
                    k \in 0..MaxListings } :
        \A i, j \in 1..Len(l) : i # j => l[i].platform # l[j].platform }

CardInit ==
    /\ cProduct \in { [name |-> Milk, image |-> <<>>, original_names |-> <<>>,
                        platforms |-> l] : l \in CardListings }
    /\ cCard = NoCard
    /\ ParseIdle /\ QtyIdle /\ ViewIdle /\ SortIdle /\ DelivIdle /\ ScreenIdle /\ SheetIdle /\ LoadIdle

RenderProductCard ==
    /\ cCard.view = "none"
    /\ cCard' = ProductCard(cProduct)
    /\ UNCHANGED <<cProduct, parseVars, qtyVars, viewVars, sortVars, delivVars,
                   serviceVars, screenVars, sheetVars, loadVars>>

RenderComparisonTable ==
    /\ cCard.view = "none"
    /\ cCard' = ProductComparisonTable(cProduct)
    /\ UNCHANGED <<cProduct, parseVars, qtyVars, viewVars, sortVars, delivVars,
                   serviceVars, screenVars, sheetVars, loadVars>>

CardNext == RenderProductCard \/ RenderComparisonTable

SpecCard == CardInit /\ [][CardNext]_vars

ListingPrices == { cProduct.platforms[i].price : i \in 1..Len(cProduct.platforms) }
LowestPrice == CHOOSE m \in ListingPrices : \A x \in ListingPrices : m <= x
HighestPrice == CHOOSE m \in ListingPrices : \A x \in ListingPrices : m >= x

\* C21: the card of a matched product with at least one listing shows every
\* listing, in non-decreasing order of price; it marks as cheapest exactly the
\* listings at the minimum price, so at least one; and the savings of the
\* ProductCard are the maximum price minus the minimum price, never negative.
C21_CardOrderCheapestSavings ==
    (cCard.view # "none" /\ Len(cProduct.platforms) > 0) =>
       /\ cCard.shown
       /\ Len(cCard.rows) = Len(cProduct.platforms)
       /\ \A i \in 1..Len(cProduct.platforms) :
             \E j \in 1..Len(cCard.rows) :
                /\ cCard.rows[j].platform = cProduct.platforms[i].platform
                /\ cCard.rows[j].price = cProduct.platforms[i].price
       /\ \A i, j \in 1..Len(cCard.rows) : i < j => cCard.rows[i].price <= cCard.rows[j].price
       /\ \A i \in 1..Len(cCard.rows) :
             cCard.rows[i].isCheapest <=> cCard.rows[i].price = LowestPrice
       /\ \E i \in 1..Len(cCard.rows) : cCard.rows[i].isCheapest
       /\ cCard.view = "ProductCard" => cCard.savings = HighestPrice - LowestPrice /\ cCard.savings >= 0

\* a card of three listings, two of them at the minimum price
C21_Witness ==
    /\ cCard.view = "ProductCard"
    /\ Len(cCard.rows) = 3
    /\ cCard.rows[2].isCheapest
    /\ cCard.savings > 0

-----------------------------------------------------------------------------
(* SpecLoading: the loading flag of a view around its searches: the search   *)
(* effect of the web App (src/src/App.tsx lines 68-113) and the fetch effect *)
(* of the mobile results screen (src/groease-mobile/app/_layout.tsx lines    *)
(* 155-182). A search is in flight from the call of                         *)
(* ProductService.searchProducts until its promise is resolved; the promise *)
(* is never rejected, so the catch of the effect is not entered.            *)

\* searches a view starts
MaxLoads == 4

\* App.tsx line 33: useState(false); _layout.tsx line 92: useState(true)
LoadingInit ==
    /\ ldView \in { "App", "ResultsScreen" }
    /\ ldLoading = (ldView = "ResultsScreen")
    /\ ldInflight = {}
    /\ ldTimers = {}
    /\ ldIssued = 0
    /\ ParseIdle /\ QtyIdle /\ ViewIdle /\ SortIdle /\ DelivIdle /\ ScreenIdle /\ SheetIdle
    /\ CardIdle

\* the effect runs for a new query or location: setLoading(true), then the call
\* (App.tsx lines 87-95, _layout.tsx lines 160-165)
StartSearch ==
    /\ ldIssued < MaxLoads
    /\ ldIssued' = ldIssued + 1
    /\ ldLoading' = TRUE
    /\ ldInflight' = ldInflight \cup { ldIssued + 1 }
    /\ UNCHANGED <<ldView, ldTimers, parseVars, qtyVars, viewVars, sortVars, delivVars,
                   serviceVars, screenVars, sheetVars, cardVars>>

\* App.tsx lines 78-85: the effect of the App runs for a blank query
StartBlankSearch ==
    /\ ldView = "App"
    /\ ldIssued < MaxLoads
    /\ ldIssued' = ldIssued + 1
    /\ ldLoading' = FALSE
    /\ UNCHANGED <<ldView, ldInflight, ldTimers, parseVars, qtyVars, viewVars, sortVars,
                   delivVars, serviceVars, screenVars, sheetVars, cardVars>>

\* the promise of a search is resolved: the results are set and
\* setTimeout(() => { setLoading(false); ... }, delay) is scheduled
\* (App.tsx lines 96-102, _layout.tsx lines 170-175)
SearchResolves(id) ==
    /\ id \in ldInflight
    /\ ldInflight' = ldInflight \ { id }
    /\ ldTimers' = ldTimers \cup { id }
    /\ UNCHANGED <<ldView, ldLoading, ldIssued, parseVars, qtyVars, viewVars, sortVars,
                   delivVars, serviceVars, screenVars, sheetVars, cardVars>>

\* the delay of a timer has elapsed: setLoading(false)
TimerFires(id) ==
    /\ id \in ldTimers
    /\ ldTimers' = ldTimers \ { id }
    /\ ldLoading' = FALSE
    /\ UNCHANGED <<ldView, ldInflight, ldIssued, parseVars, qtyVars, viewVars, sortVars,
                   delivVars, serviceVars, screenVars, sheetVars, cardVars>>

LoadingNext ==
    \/ StartSearch
    \/ StartBlankSearch
    \/ \E id \in 1..MaxLoads : SearchResolves(id)
    \/ \E id \in 1..MaxLoads : TimerFires(id)

SpecLoading == LoadingInit /\ [][LoadingNext]_vars

\* C29: the loading flag is true whenever a search is in flight; the delayed
\* setLoading(false) of a completed search never clears it under a later search.
C29_LoadingWhileInFlight == ldInflight # {} => ldLoading

====
